---- MODULE Spec2Model ----
(***************************************************************************)
(* A model of the node adapters of lightning-integration: LndNode          *)
(* (src/lnd.py), ElectrumNode (src/electrumutils.py) and the polling       *)
(* helpers of the scenario layer (src/test.py).                            *)
(*                                                                         *)
(* The module holds four state machines over one set of variables; each    *)
(* has its own specification and leaves the other machines' variables      *)
(* untouched:                                                              *)
(*   SpecForceClose  ElectrumNode.force_close, its watcher task on the      *)
(*                   network event loop, and get_published_e_tx            *)
(*   SpecPolling     wait_for and generate_until                           *)
(*   SpecNode        the handle operations of LndNode and ElectrumNode     *)
(*   SpecFunds       addfunds of both backends                             *)
(***************************************************************************)
EXTENDS Integers, Sequences, FiniteSets, TLC

(***************************************************************************)
(* Bounds of the model.                                                    *)
(***************************************************************************)
\* number of force_close generators the test thread may create
MaxClose == 2
\* number of transactions the chain watcher queues in one run
MaxBroadcast == 2
\* largest timeout and interval (in clock ticks) a wait_for call is given
MaxTimeout == 2
\* largest number of blocks a generate_until call is given
MaxBlocks == 2
\* number of remote peers
MaxPeers == 2
\* number of channels of the electrum wallet
MaxChans == 2
\* number of wallets created in one run
MaxWallets == 2
\* largest amount an addfunds call is given
MaxAmount == 2
\* nodes of the gossip graph
MaxNodes == 3
\* channels of the gossip graph
MaxEdges == 2
\* largest to_self_delay of a channel configuration
MaxCsv == 2
\* invoices a payment is sent for
MaxPreimages == 2
\* the parameter seconds of tx_heights
MaxSeconds == 2
\* kill() calls on one ElectrumX
MaxKills == 2
\* restart() calls on one handle
MaxRestarts == 2
\* node handles of a test
MaxHandles == 2
Handles == 1..MaxHandles
\* `i < 30` in LndNode.addfunds
LndSettleCap == 30

Gens == 1..MaxClose
\* the encumbered transactions the chain watcher may broadcast (two distinct
\* values: enough to tell an order and a repetition)
Txs == {"e_tx1", "e_tx2"}

(***************************************************************************)
(* State of ElectrumNode.force_close / get_published_e_tx.                 *)
(***************************************************************************)
VARIABLES
    tx_progress,                \* lnwatcher.tx_progress[funding outpoint]: the registered ListenerItem (0: none)
    tx_queue,                   \* ListenerItem.tx_queue of each item (an asyncio.Queue)
    all_done,                   \* ListenerItem.all_done of each item (an asyncio.Event)
    watch_pc,                   \* the watch_queue task of each item: none, ready, running, waiting
    seen,                       \* the local set `seen` of each watch_queue task
    ready,                      \* the event loop's FIFO of watcher tasks that are ready to run
    loop_cur,                   \* the watcher task the event loop is running (0: none)
    broadcasted_encumbered_txs, \* ElectrumNode.broadcasted_encumbered_txs (a queue.Queue)
    gen_pc,                     \* position of each force_close generator
    close_fut,                  \* the future of lnworker.force_close_channel of each generator
    gen_out,                    \* the items each generator has yielded to the test thread
    published,                  \* the values get_published_e_tx has returned, in order
    broadcast_log               \* the transactions the chain watcher has queued, in order

fcVars == <<tx_progress, tx_queue, all_done, watch_pc, seen, ready, loop_cur,
            broadcasted_encumbered_txs, gen_pc, close_fut, gen_out, published,
            broadcast_log>>

(***************************************************************************)
(* State of the polling helpers wait_for and generate_until. The test      *)
(* thread runs one helper call at a time.                                  *)
(***************************************************************************)
VARIABLES
    h_fn,        \* the helper that was called: none, wait_for, generate_until
    h_pc,        \* position in the helper's body
    h_evals,     \* the outcomes of the evaluations of success(), in order
    h_result,    \* how the call ended: none, returned, ValueError, pred_error
    now,         \* time.time()
    start_time,  \* wait_for's start_time
    timeout,     \* wait_for's timeout
    interval,    \* wait_for's interval
    wake_at,     \* the time at which the running time.sleep(interval) returns
    blocks,      \* generate_until's blocks
    gu_i,        \* generate_until's loop index i
    mined        \* number of btc.rpc.generate(1) calls made by generate_until

pollVars == <<h_fn, h_pc, h_evals, h_result, now, start_time, timeout, interval,
              wake_at, blocks, gu_i, mined>>

(***************************************************************************)
(* State of one node handle, an LndNode or an ElectrumNode, and of the      *)
(* daemon and wallet behind it.                                            *)
(***************************************************************************)
VARIABLES
    impl,           \* the handle's implementation: lnd or electrum
    lnd_proc,       \* LndD's process: absent (never started), running, stopped
    lnd_has_stub,   \* whether LndD.start has set daemon.stub
    lnd_wallet,     \* the wallet in lnd's directory (0: none); a wallet is named by its identity
    lnd_unlocked,   \* whether the running lnd has its wallet open and serves the Lightning RPCs
    myid,           \* LndNode.myid (0: None)
    lnd_channels,   \* lnd's channel with each peer: none, inactive, active
    el_actual,      \* ElectrumDaemon.actual: none, running, stopped
    el_wallets,     \* the wallet in daemon.actual.wallets (0: none)
    el_wallet_file, \* the wallet file in the electrum directory (0: none)
    el_channels,    \* wallet.lnworker.channels, in dictionary order
    wallets_made,   \* number of wallets created so far
    result,         \* the last handle operation and what it returned or raised
    first_id        \* the first value id() returned (0: none yet)

nodeVars == <<impl, lnd_proc, lnd_has_stub, lnd_wallet, lnd_unlocked, myid,
              lnd_channels, el_actual, el_wallets, el_wallet_file, el_channels,
              wallets_made, result, first_id>>

(***************************************************************************)
(* State of one addfunds call on the handle.                               *)
(***************************************************************************)
VARIABLES
    af_pc,          \* position in addfunds, or how it ended
    af_i,           \* LndNode.addfunds' counter i
    satoshis,       \* the amount addfunds was given
    sent,           \* whether bitcoind.rpc.sendtoaddress was called
    total_balance,  \* lnd's WalletBalance().total_balance
    addr_balance,   \* electrum's get_addr_balance(addr): matured, unconfirmed, unmatured
    last_poll       \* the balance addfunds read last: [read |-> whether it read any, funded |-> whether that one showed the payment]

fundVars == <<af_pc, af_i, satoshis, sent, total_balance, addr_balance, last_poll>>

(***************************************************************************)
(* State of one confirm_channel call (src/test.py).                        *)
(***************************************************************************)
VARIABLES
    cc_pc,       \* position in confirm_channel
    cc_i,        \* the loop index i; ConfirmRounds once the loop is over
    cc_mined,    \* number of blocks confirm_channel has mined; a block's hash is its number
    cc_bhash,    \* the local bhash (0: not assigned yet)
    cc_synced,   \* for n1 and n2: the hash of the last block_sync call it got (0: none)
    cc_last,     \* what n1.check_channel(n2) and n2.check_channel(n1) returned at the last poll
    cc_polls,    \* number of polls made
    cc_result    \* none, or what the call returned or raised

confVars == <<cc_pc, cc_i, cc_mined, cc_bhash, cc_synced, cc_last, cc_polls, cc_result>>

(***************************************************************************)
(* State of the gossip graph a started node knows, and of one getchannels  *)
(* or getnodes call on its handle.                                         *)
(***************************************************************************)
VARIABLES
    g_nodes,     \* the nodes of the graph the backend knows
    g_edges,     \* its channels, in the order the backend lists them: <<node 1, node 2>>
    g_myid,      \* LndNode.myid of this handle (<<>>: None)
    g_result     \* the call made and what it returned or raised

gossipVars == <<g_nodes, g_edges, g_myid, g_result>>

(***************************************************************************)
(* State of the channels and payments of a started node, and of the        *)
(* openchannel and send calls on its handle.                               *)
(***************************************************************************)
VARIABLES
    ch_peers,     \* the peers the backend is connected to
    ch_channels,  \* the node's channels, oldest first (the order of lnworker.channels)
    ch_txs,       \* number of funding transactions made; a txid is its number
    ch_opened,    \* the channel the backend opened in the last openchannel call (txid 0: none)
    ch_pay,       \* what the backend did with the payment of the last send call
    ch_result     \* the last call and what it returned or raised

chanVars == <<ch_peers, ch_channels, ch_txs, ch_opened, ch_pay, ch_result>>

(***************************************************************************)
(* State of the processes behind one handle, and of restart() on it.       *)
(***************************************************************************)
VARIABLES
    \* each is a function of the handle
    rs_pc,         \* position of the thread that starts and restarts the node
    rs_spawned,    \* number of processes / daemons started for the handle; each is named by its number
    rs_running,    \* those of them that are running
    rs_signalled,  \* the lnd processes that were sent SIGTERM
    rs_proc,       \* the daemon's proc (lnd) or actual (electrum): the one the handle holds (0: none)
    rs_wallet,     \* whether the electrum Daemon the handle holds has a wallet
    rs_settled,    \* whether restart's time.sleep(5) has passed since the stop
    rs_restarts,   \* number of restart() calls made
    rs_result      \* how the last restart() call ended

procVars == <<rs_pc, rs_spawned, rs_running, rs_signalled, rs_proc, rs_wallet, rs_settled,
              rs_restarts, rs_result>>

(***************************************************************************)
(* State of one ElectrumX server: its event loop, its thread and the       *)
(* thread that calls start, kill and wait.                                 *)
(***************************************************************************)
VARIABLES
    ex_thread,     \* self.thread: none, setup, running (in run_until_complete), closing, ended
    ex_closed,     \* whether loop.close() was called
    ex_callbacks,  \* callbacks handed to the loop by call_soon_threadsafe and not yet run
    ex_tasks,      \* set_evt tasks of the loop that have not run yet
    ex_evt,        \* self.evt is set
    ex_serve,      \* controller.serve(evt): pending or done
    ex_kills,      \* number of kill() calls made
    ex_kill,       \* how the last kill() ended: none, returned, RuntimeError
    ex_wait        \* wait(): none, joining, returned, AttributeError

exVars == <<ex_thread, ex_closed, ex_callbacks, ex_tasks, ex_evt, ex_serve, ex_kills,
            ex_kill, ex_wait>>

(***************************************************************************)
(* State of one ElectrumNode call that hands a coroutine to an event loop   *)
(* and waits for its future.                                               *)
(***************************************************************************)
VARIABLES
    x_op,       \* the method called: none, connect, send, check_route, force_close, tx_heights
    x_loop,     \* the loop the coroutine was submitted to: network, or another loop
    x_bounded,  \* whether fut.result is given a timeout
    x_secs,     \* that timeout, in seconds
    x_exec,     \* the coroutine: queued, running (the request is with the backend), done
    x_elapsed,  \* seconds the caller has waited in fut.result
    x_result    \* how the call ended: none, returned, TimeoutError

xVars == <<x_op, x_loop, x_bounded, x_secs, x_exec, x_elapsed, x_result>>

\* the state of the operations modelled further down
laterVars == <<confVars, gossipVars, chanVars, procVars, exVars, xVars>>

vars == <<fcVars, pollVars, nodeVars, fundVars, laterVars>>

nonFC == <<pollVars, nodeVars, fundVars, laterVars>>
nonPoll == <<fcVars, nodeVars, fundVars, laterVars>>
nonNode == <<fcVars, pollVars, fundVars, laterVars>>
nodeVarsButImpl == <<lnd_proc, lnd_has_stub, lnd_wallet, lnd_unlocked, myid,
                     lnd_channels, el_actual, el_wallets, el_wallet_file, el_channels,
                     wallets_made, result, first_id>>
nonFunds == <<fcVars, pollVars, nodeVarsButImpl, laterVars>>
nonConf == <<fcVars, pollVars, nodeVars, fundVars, gossipVars, chanVars, procVars, exVars, xVars>>
nonGossip == <<fcVars, pollVars, nodeVarsButImpl, fundVars, confVars, chanVars, procVars, exVars, xVars>>
nonChan == <<fcVars, pollVars, nodeVarsButImpl, fundVars, confVars, gossipVars, procVars, exVars, xVars>>
nonProc == <<fcVars, pollVars, nodeVarsButImpl, fundVars, confVars, gossipVars, chanVars, exVars, xVars>>
nonEx == <<fcVars, pollVars, nodeVars, fundVars, confVars, gossipVars, chanVars, procVars,
           xVars>>
nonX == <<fcVars, pollVars, nodeVars, fundVars, confVars, gossipVars, chanVars, procVars,
          exVars>>

InitFC ==
    /\ tx_progress = 0
    /\ tx_queue = [g \in Gens |-> <<>>]
    /\ all_done = [g \in Gens |-> FALSE]
    /\ watch_pc = [g \in Gens |-> "none"]
    /\ seen = [g \in Gens |-> {}]
    /\ ready = <<>>
    /\ loop_cur = 0
    /\ broadcasted_encumbered_txs = <<>>
    /\ gen_pc = [g \in Gens |-> "unborn"]
    /\ close_fut = [g \in Gens |-> "none"]
    /\ gen_out = [g \in Gens |-> <<>>]
    /\ published = <<>>
    /\ broadcast_log = <<>>

\* (mutant: get_published_e_tx may run while next(gen) blocks)
TestThreadFree_Always == TRUE

\* The test thread is blocked inside next(gen) while a generator waits on a future.
TestThreadFree == \A g \in Gens : gen_pc[g] \notin {"closing", "waiting_done"}

\* self.chan(remote.id()): the first channel of the wallet is found, there is
\* none (StopIteration), or it belongs to another peer (AssertionError).
ChanLookups == {"found", "StopIteration", "AssertionError"}

\* force_close(remote): calling the generator function runs none of its body.
\* Generators are numbered in the order in which they are first advanced.
FC_Create(g) ==
    /\ TestThreadFree
    /\ gen_pc[g] = "unborn"
    /\ \A h \in Gens : h < g => gen_pc[h] \notin {"unborn", "created"}
    /\ gen_pc' = [gen_pc EXCEPT ![g] = "created"]
    /\ UNCHANGED <<tx_progress, tx_queue, all_done, watch_pc, seen, ready, loop_cur,
                   broadcasted_encumbered_txs, close_fut, gen_out, published,
                   broadcast_log>>
    /\ UNCHANGED nonFC

\* What the first next(gen) registers once the channel was found: the listener
\* item, then the watcher task, then the close request.
RegisterAndSubmit(g) ==
    /\ tx_progress' = g
    /\ watch_pc' = [watch_pc EXCEPT ![g] = "ready"]
    /\ ready' = Append(ready, g)
    /\ close_fut' = [close_fut EXCEPT ![g] = "pending"]
    /\ gen_pc' = [gen_pc EXCEPT ![g] = "closing"]

\* First next(gen): lines 245-259, up to the blocking coro.result(5).
FC_Next1(g) ==
    /\ TestThreadFree
    /\ gen_pc[g] = "created"
    /\ \E c \in ChanLookups :
        IF c = "found"
        THEN RegisterAndSubmit(g)
        ELSE /\ gen_pc' = [gen_pc EXCEPT ![g] = "raised"]
             /\ UNCHANGED <<tx_progress, watch_pc, ready, close_fut>>
    /\ UNCHANGED <<tx_queue, all_done, seen, loop_cur, broadcasted_encumbered_txs,
                   gen_out, published, broadcast_log>>
    /\ UNCHANGED nonFC

\* lnworker.force_close_channel completes on the event loop while the generator
\* waits on its future (a completion after the 5 s have expired is read by nobody).
FC_CloseAcked(g) ==
    /\ gen_pc[g] = "closing"
    /\ close_fut[g] = "pending"
    /\ close_fut' = [close_fut EXCEPT ![g] = "acked"]
    /\ UNCHANGED <<tx_progress, tx_queue, all_done, watch_pc, seen, ready, loop_cur,
                   broadcasted_encumbered_txs, gen_pc, gen_out, published,
                   broadcast_log>>
    /\ UNCHANGED nonFC

\* coro.result(5) returns: the close request was acknowledged.
CloseResultReady(g) == close_fut[g] = "acked"

\* yield coro.result(5)
FC_Yield1(g) ==
    /\ gen_pc[g] = "closing"
    /\ CloseResultReady(g)
    /\ gen_out' = [gen_out EXCEPT ![g] = Append(@, "closing_txid")]
    /\ gen_pc' = [gen_pc EXCEPT ![g] = "yielded1"]
    /\ UNCHANGED <<tx_progress, tx_queue, all_done, watch_pc, seen, ready, loop_cur,
                   broadcasted_encumbered_txs, close_fut, published,
                   broadcast_log>>
    /\ UNCHANGED nonFC

\* coro.result(5) raises TimeoutError: no acknowledgement within 5 s.
FC_Timeout1(g) ==
    /\ gen_pc[g] = "closing"
    /\ close_fut[g] = "pending"
    /\ gen_pc' = [gen_pc EXCEPT ![g] = "raised"]
    /\ UNCHANGED <<tx_progress, tx_queue, all_done, watch_pc, seen, ready, loop_cur,
                   broadcasted_encumbered_txs, close_fut, gen_out, published,
                   broadcast_log>>
    /\ UNCHANGED nonFC

\* Second next(gen): submits item.all_done.wait() and blocks on .result(30).
FC_Next2(g) ==
    /\ TestThreadFree
    /\ gen_pc[g] = "yielded1"
    /\ gen_pc' = [gen_pc EXCEPT ![g] = "waiting_done"]
    /\ UNCHANGED <<tx_progress, tx_queue, all_done, watch_pc, seen, ready, loop_cur,
                   broadcasted_encumbered_txs, close_fut, gen_out, published,
                   broadcast_log>>
    /\ UNCHANGED nonFC

\* (mutant: the second item is yielded without waiting for the event)
AllDoneWaitReturns_NoWait(g) == TRUE

\* item.all_done.wait() returns: the event of this generator's item is set.
AllDoneWaitReturns(g) == all_done[g]

\* yield ....result(30)
FC_Yield2(g) ==
    /\ gen_pc[g] = "waiting_done"
    /\ AllDoneWaitReturns(g)
    /\ gen_out' = [gen_out EXCEPT ![g] = Append(@, "all_done")]
    /\ gen_pc' = [gen_pc EXCEPT ![g] = "yielded2"]
    /\ UNCHANGED <<tx_progress, tx_queue, all_done, watch_pc, seen, ready, loop_cur,
                   broadcasted_encumbered_txs, close_fut, published,
                   broadcast_log>>
    /\ UNCHANGED nonFC

\* .result(30) raises TimeoutError: the event was not set within 30 s.
FC_Timeout2(g) ==
    /\ gen_pc[g] = "waiting_done"
    /\ ~all_done[g]
    /\ gen_pc' = [gen_pc EXCEPT ![g] = "raised"]
    /\ UNCHANGED <<tx_progress, tx_queue, all_done, watch_pc, seen, ready, loop_cur,
                   broadcasted_encumbered_txs, close_fut, gen_out, published,
                   broadcast_log>>
    /\ UNCHANGED nonFC

\* Third next(gen): the generator body ends (StopIteration).
FC_Next3(g) ==
    /\ TestThreadFree
    /\ gen_pc[g] = "yielded2"
    /\ gen_pc' = [gen_pc EXCEPT ![g] = "ended"]
    /\ UNCHANGED <<tx_progress, tx_queue, all_done, watch_pc, seen, ready, loop_cur,
                   broadcasted_encumbered_txs, close_fut, gen_out, published,
                   broadcast_log>>
    /\ UNCHANGED nonFC

\* The event loop takes the next ready watcher task and runs it.
Loop_RunWatcher ==
    /\ loop_cur = 0
    /\ ready # <<>>
    /\ loop_cur' = Head(ready)
    /\ ready' = Tail(ready)
    /\ watch_pc' = [watch_pc EXCEPT ![Head(ready)] = "running"]
    /\ UNCHANGED <<tx_progress, tx_queue, all_done, seen, broadcasted_encumbered_txs,
                   gen_pc, close_fut, gen_out, published, broadcast_log>>
    /\ UNCHANGED nonFC

\* (mutant: the watcher drops every transaction)
AlreadySeen_All(g, e_tx) == TRUE

\* `if e_tx in seen: continue`: whether the watcher of item g drops e_tx.
AlreadySeen(g, e_tx) == e_tx \in seen[g]

\* One iteration of watch_queue's loop: item.tx_queue.get() returns at once when
\* the queue holds a transaction, and suspends the task when it is empty.
W_Iter(g) ==
    /\ loop_cur = g
    /\ watch_pc[g] = "running"
    /\ IF tx_queue[g] = <<>>
       THEN /\ watch_pc' = [watch_pc EXCEPT ![g] = "waiting"]
            /\ loop_cur' = 0
            /\ UNCHANGED <<tx_queue, seen, broadcasted_encumbered_txs>>
       ELSE LET e_tx == Head(tx_queue[g]) IN
            /\ tx_queue' = [tx_queue EXCEPT ![g] = Tail(@)]
            /\ IF AlreadySeen(g, e_tx)
               THEN UNCHANGED <<seen, broadcasted_encumbered_txs>>
               ELSE /\ seen' = [seen EXCEPT ![g] = @ \cup {e_tx}]
                    /\ broadcasted_encumbered_txs' = Append(broadcasted_encumbered_txs, e_tx)
            /\ UNCHANGED <<watch_pc, loop_cur>>
    /\ UNCHANGED <<tx_progress, all_done, ready, gen_pc, close_fut, gen_out,
                   published, broadcast_log>>
    /\ UNCHANGED nonFC

\* The chain watcher, a task of the same event loop, broadcast e_tx and puts it
\* on the queue of the item registered for the funding outpoint; a watcher
\* suspended in get() becomes ready.
CW_Broadcast(e_tx) ==
    /\ loop_cur = 0
    /\ tx_progress # 0
    /\ Len(broadcast_log) < MaxBroadcast
    /\ tx_queue' = [tx_queue EXCEPT ![tx_progress] = Append(@, e_tx)]
    /\ broadcast_log' = Append(broadcast_log, e_tx)
    /\ IF watch_pc[tx_progress] = "waiting"
       THEN /\ watch_pc' = [watch_pc EXCEPT ![tx_progress] = "ready"]
            /\ ready' = Append(ready, tx_progress)
       ELSE UNCHANGED <<watch_pc, ready>>
    /\ UNCHANGED <<tx_progress, all_done, seen, loop_cur, broadcasted_encumbered_txs,
                   gen_pc, close_fut, gen_out, published>>
    /\ UNCHANGED nonFC

\* The chain watcher sets all_done of the registered item: the close is resolved.
CW_AllDone ==
    /\ loop_cur = 0
    /\ tx_progress # 0
    /\ ~all_done[tx_progress]
    /\ all_done' = [all_done EXCEPT ![tx_progress] = TRUE]
    /\ UNCHANGED <<tx_progress, tx_queue, watch_pc, seen, ready, loop_cur,
                   broadcasted_encumbered_txs, gen_pc, close_fut, gen_out, published,
                   broadcast_log>>
    /\ UNCHANGED nonFC

\* get_published_e_tx(): broadcasted_encumbered_txs.get(timeout=30) blocks while
\* the queue is empty and returns its oldest element. (A call whose 30 s expire
\* raises queue.Empty and changes nothing; it is not an action of the model.)
GetPublished ==
    /\ TestThreadFree
    /\ broadcasted_encumbered_txs # <<>>
    /\ published' = Append(published, Head(broadcasted_encumbered_txs))
    /\ broadcasted_encumbered_txs' = Tail(broadcasted_encumbered_txs)
    /\ UNCHANGED <<tx_progress, tx_queue, all_done, watch_pc, seen, ready, loop_cur,
                   gen_pc, close_fut, gen_out, broadcast_log>>
    /\ UNCHANGED nonFC

NextForceClose ==
    \/ \E g \in Gens : FC_Create(g)
    \/ \E g \in Gens : FC_Next1(g)
    \/ \E g \in Gens : FC_CloseAcked(g)
    \/ \E g \in Gens : FC_Yield1(g)
    \/ \E g \in Gens : FC_Timeout1(g)
    \/ \E g \in Gens : FC_Next2(g)
    \/ \E g \in Gens : FC_Yield2(g)
    \/ \E g \in Gens : FC_Timeout2(g)
    \/ \E g \in Gens : FC_Next3(g)
    \/ Loop_RunWatcher
    \/ \E g \in Gens : W_Iter(g)
    \/ \E e_tx \in Txs : CW_Broadcast(e_tx)
    \/ CW_AllDone
    \/ GetPublished

(***************************************************************************)
(* wait_for and generate_until (src/test.py).                              *)
(***************************************************************************)
\* the clock stops at this horizon
MaxTime == MaxTimeout + 2

Outcomes == {"true", "false", "raise"}

InitPoll ==
    /\ h_fn = "none"
    /\ h_pc = "idle"
    /\ h_evals = <<>>
    /\ h_result = "none"
    /\ now = 0
    /\ start_time = 0
    /\ timeout = 0
    /\ interval = 0
    /\ wake_at = 0
    /\ blocks = 0
    /\ gu_i = 0
    /\ mined = 0

\* Time passes.
Tick ==
    /\ now < MaxTime
    /\ now' = now + 1
    /\ UNCHANGED <<h_fn, h_pc, h_evals, h_result, start_time, timeout, interval,
                   wake_at, blocks, gu_i, mined>>
    /\ UNCHANGED nonPoll

\* (mutant: the helper catches the predicate's error and polls on)
PredicateValue_Swallow(outcome) ==
    IF outcome = "raise" THEN "false" ELSE outcome

\* What an evaluation of success() inside a helper amounts to: neither helper
\* wraps the call in try/except, so an error raised by the predicate leaves
\* the helper.
PredicateValue(outcome) ==
    IF outcome = "raise" THEN "propagate" ELSE outcome

\* wait_for(success, timeout, interval): start_time = time.time()
WaitFor_Call(t, iv) ==
    /\ h_fn = "none"
    /\ h_fn' = "wait_for"
    /\ start_time' = now
    /\ timeout' = t
    /\ interval' = iv
    /\ h_pc' = "eval"
    /\ UNCHANGED <<h_evals, h_result, now, wake_at, blocks, gu_i, mined>>
    /\ UNCHANGED nonPoll

\* `not success()`, the left operand of the loop condition
WaitFor_Eval(outcome) ==
    /\ h_fn = "wait_for"
    /\ h_pc = "eval"
    /\ h_evals' = Append(h_evals, outcome)
    /\ LET v == PredicateValue(outcome) IN
        /\ h_pc' = CASE v = "propagate" -> "done"
                     [] v = "true" -> "check"
                     [] OTHER -> "cond_time"
        /\ h_result' = IF v = "propagate" THEN "pred_error" ELSE h_result
    /\ UNCHANGED <<h_fn, now, start_time, timeout, interval, wake_at, blocks, gu_i, mined>>
    /\ UNCHANGED nonPoll

\* `time.time() < start_time + timeout`, the right operand, then time.sleep(interval)
WaitFor_CondTime ==
    /\ h_fn = "wait_for"
    /\ h_pc = "cond_time"
    /\ IF now < start_time + timeout
       THEN /\ h_pc' = "sleep"
            /\ wake_at' = now + interval
       ELSE /\ h_pc' = "check"
            /\ UNCHANGED wake_at
    /\ UNCHANGED <<h_fn, h_evals, h_result, now, start_time, timeout, interval,
                   blocks, gu_i, mined>>
    /\ UNCHANGED nonPoll

\* time.sleep(interval) returns
WaitFor_Wake ==
    /\ h_fn = "wait_for"
    /\ h_pc = "sleep"
    /\ now >= wake_at
    /\ h_pc' = "eval"
    /\ UNCHANGED <<h_fn, h_evals, h_result, now, start_time, timeout, interval,
                   wake_at, blocks, gu_i, mined>>
    /\ UNCHANGED nonPoll

\* `if time.time() > start_time + timeout: raise ValueError(...)`
WaitFor_Check ==
    /\ h_fn = "wait_for"
    /\ h_pc = "check"
    /\ h_result' = IF now > start_time + timeout THEN "ValueError" ELSE "returned"
    /\ h_pc' = "done"
    /\ UNCHANGED <<h_fn, h_evals, now, start_time, timeout, interval, wake_at,
                   blocks, gu_i, mined>>
    /\ UNCHANGED nonPoll

\* generate_until(btc, success, blocks, interval)
GenerateUntil_Call(b) ==
    /\ h_fn = "none"
    /\ h_fn' = "generate_until"
    /\ blocks' = b
    /\ gu_i' = 0
    /\ h_pc' = IF b > 0 THEN "loop_eval" ELSE "last_eval"
    /\ UNCHANGED <<h_evals, h_result, now, start_time, timeout, interval, wake_at, mined>>
    /\ UNCHANGED nonPoll

\* In the loop: time.sleep(interval); if success(): return
GenerateUntil_LoopEval(outcome) ==
    /\ h_fn = "generate_until"
    /\ h_pc = "loop_eval"
    /\ h_evals' = Append(h_evals, outcome)
    /\ LET v == PredicateValue(outcome) IN
        /\ h_pc' = IF v = "false" THEN "generate" ELSE "done"
        /\ h_result' = CASE v = "propagate" -> "pred_error"
                         [] v = "true" -> "returned"
                         [] OTHER -> h_result
    /\ UNCHANGED <<h_fn, now, start_time, timeout, interval, wake_at, blocks, gu_i, mined>>
    /\ UNCHANGED nonPoll

\* (mutant: the loop runs once more than range(blocks))
RangeHasNext_OneMore == gu_i < blocks

\* `for i in range(blocks)`: whether there is a round after round i
RangeHasNext == gu_i + 1 < blocks

\* In the loop: btc.rpc.generate(1), then the next i of range(blocks)
GenerateUntil_Generate ==
    /\ h_fn = "generate_until"
    /\ h_pc = "generate"
    /\ mined' = mined + 1
    /\ gu_i' = gu_i + 1
    /\ h_pc' = IF RangeHasNext THEN "loop_eval" ELSE "last_eval"
    /\ UNCHANGED <<h_fn, h_evals, h_result, now, start_time, timeout, interval,
                   wake_at, blocks>>
    /\ UNCHANGED nonPoll

\* After the loop: time.sleep(interval); if not success(): raise ValueError(...)
GenerateUntil_LastEval(outcome) ==
    /\ h_fn = "generate_until"
    /\ h_pc = "last_eval"
    /\ h_evals' = Append(h_evals, outcome)
    /\ LET v == PredicateValue(outcome) IN
        h_result' = CASE v = "propagate" -> "pred_error"
                      [] v = "true" -> "returned"
                      [] OTHER -> "ValueError"
    /\ h_pc' = "done"
    /\ UNCHANGED <<h_fn, now, start_time, timeout, interval, wake_at, blocks, gu_i, mined>>
    /\ UNCHANGED nonPoll

NextPolling ==
    \/ Tick
    \/ \E t \in 1..MaxTimeout, iv \in 1..MaxTimeout : WaitFor_Call(t, iv)
    \/ \E o \in Outcomes : WaitFor_Eval(o)
    \/ WaitFor_CondTime
    \/ WaitFor_Wake
    \/ WaitFor_Check
    \/ \E b \in 0..MaxBlocks : GenerateUntil_Call(b)
    \/ \E o \in Outcomes : GenerateUntil_LoopEval(o)
    \/ GenerateUntil_Generate
    \/ \E o \in Outcomes : GenerateUntil_LastEval(o)

(***************************************************************************)
(* The handle operations of LndNode (src/lnd.py) and ElectrumNode          *)
(* (src/electrumutils.py).                                                 *)
(***************************************************************************)
Peers == 1..MaxPeers

\* The text of a backend error, as a sequence of words; NoPath stands for the
\* phrase "unable to find a path to destination".
NoPath == "unable to find a path to destination"
ErrorTexts == {<<"rpc error:", NoPath>>, <<NoPath>>, <<"rpc error:", "unavailable">>}
\* QueryRoutes answers with routes
Routes == <<"routes">>

\* op: the operation; arg: the remote peer it was given (0: none); val: what it
\* returned, or the error it raised; id: the identity returned by id(); aux: the
\* backend's reply, or where id() took its value from; pre: the wallet the
\* daemon ran on before a restart
NoResult == [op |-> "none", arg |-> 0, val |-> "none", id |-> 0, aux |-> <<>>, pre |-> 0]

InitNode ==
    /\ impl \in {"lnd", "electrum"}
    /\ lnd_proc = "absent"
    /\ lnd_has_stub = FALSE
    /\ lnd_wallet = 0
    /\ lnd_unlocked = FALSE
    /\ myid = 0
    /\ lnd_channels = [p \in Peers |-> "none"]
    /\ el_actual = "none"
    /\ el_wallets = 0
    /\ el_wallet_file = 0
    /\ el_channels = <<>>
    /\ wallets_made = 0
    /\ result = NoResult
    /\ first_id = 0

Returned(op, arg, val, id, aux) ==
    [op |-> op, arg |-> arg, val |-> val, id |-> id, aux |-> aux, pre |-> 0]

Restarted(val, pre) ==
    [op |-> "restart", arg |-> 0, val |-> val, id |-> 0, aux |-> <<>>, pre |-> pre]

\* str.find: the 0-based index of the first occurrence of the phrase, or -1
Find(text, phrase) ==
    IF \E i \in 1..Len(text) : text[i] = phrase
    THEN (CHOOSE i \in 1..Len(text) :
              text[i] = phrase /\ \A j \in 1..(i - 1) : text[j] # phrase) - 1
    ELSE -1

(*************************** LndD and LndNode *****************************)

\* A call on self.daemon.stub: the attribute is missing before the first start,
\* the call fails while no lnd serves the Lightning RPCs, and is answered otherwise.
LndStubCall ==
    IF ~lnd_has_stub THEN "AttributeError"
    ELSE IF lnd_proc = "running" /\ lnd_unlocked THEN "ok"
    ELSE "RpcError"

\* What GenSeed and InitWallet do in LndD.start: they make a wallet from a new
\* seed; where the directory holds a wallet already, lnd either refuses
\* (the call raises) or the new wallet takes its place.
WalletInits(existing) == IF existing = 0 THEN {"fresh"} ELSE {"fresh", "rejected"}

\* LndD.start: spawn, GenSeed, InitWallet, then the LightningStub
LndD_start_effect(init) ==
    /\ lnd_proc' = "running"
    /\ IF init = "fresh"
       THEN /\ wallets_made' = wallets_made + 1
            /\ lnd_wallet' = wallets_made + 1
            /\ lnd_unlocked' = TRUE
            /\ lnd_has_stub' = TRUE
            /\ lnd_channels' = [p \in Peers |-> "none"]
       ELSE /\ lnd_unlocked' = FALSE
            /\ UNCHANGED <<wallets_made, lnd_wallet, lnd_has_stub, lnd_channels>>

\* The node factory starts the daemon of a new handle: LndD.start
LndD_start ==
    /\ impl = "lnd"
    /\ lnd_proc = "absent"
    /\ wallets_made < MaxWallets
    /\ LndD_start_effect("fresh")
    /\ result' = Returned("start", 0, "ok", 0, <<>>)
    /\ UNCHANGED <<impl, myid, el_actual, el_wallets, el_wallet_file, el_channels, first_id>>
    /\ UNCHANGED nonNode

\* LndD.stop
LndD_stop ==
    /\ impl = "lnd"
    /\ lnd_proc = "running"
    /\ lnd_proc' = "stopped"
    /\ lnd_unlocked' = FALSE
    /\ result' = Returned("stop", 0, "ok", 0, <<>>)
    /\ UNCHANGED <<impl, lnd_has_stub, lnd_wallet, myid, lnd_channels, el_actual,
                   el_wallets, el_wallet_file, el_channels, wallets_made, first_id>>
    /\ UNCHANGED nonNode

\* lnd opens, activates, deactivates or closes its channel with peer p
Lnd_ChannelChange(p, st) ==
    /\ impl = "lnd"
    /\ lnd_proc = "running" /\ lnd_unlocked
    /\ lnd_channels[p] # st
    /\ lnd_channels' = [lnd_channels EXCEPT ![p] = st]
    /\ UNCHANGED <<impl, lnd_proc, lnd_has_stub, lnd_wallet, lnd_unlocked, myid,
                   el_actual, el_wallets, el_wallet_file, el_channels, wallets_made,
                   result, first_id>>
    /\ UNCHANGED nonNode

\* LndNode.ping: GetInfo inside try/except Exception
LndPingResult == IF LndStubCall = "ok" THEN "True" ELSE "False"

LndNode_ping ==
    /\ impl = "lnd"
    /\ result' = Returned("ping", 0, LndPingResult, 0, <<>>)
    /\ UNCHANGED <<impl, lnd_proc, lnd_has_stub, lnd_wallet, lnd_unlocked, myid,
                   lnd_channels, el_actual, el_wallets, el_wallet_file, el_channels,
                   wallets_made, first_id>>
    /\ UNCHANGED nonNode

\* LndNode.id: `if not self.myid: self.myid = self.info()['id']`
LndIdCached == myid # 0

\* the outcome of LndNode.id: "ok" or the error info() raises
LndIdOutcome == IF LndIdCached THEN "ok" ELSE LndStubCall
\* (mutant: id() asks lnd again whenever it answers)
LndIdAfter_Refetch == IF LndStubCall = "ok" THEN lnd_wallet ELSE myid

\* the value of self.myid after LndNode.id
\* (mutant: id() caches the wallet's identity without having got an answer)
LndIdAfter_Unasked == IF LndIdCached THEN myid ELSE lnd_wallet

LndIdAfter == IF LndIdCached THEN myid ELSE IF LndStubCall = "ok" THEN lnd_wallet ELSE 0

LndNode_id ==
    /\ impl = "lnd"
    /\ myid' = LndIdAfter
    /\ result' = IF LndIdOutcome = "ok"
                 THEN Returned("id", 0, "id", LndIdAfter, IF LndIdCached THEN <<"cache">> ELSE <<"resolved">>)
                 ELSE Returned("id", 0, LndIdOutcome, 0, <<>>)
    /\ first_id' = IF first_id = 0 /\ LndIdOutcome = "ok" THEN LndIdAfter ELSE first_id
    /\ UNCHANGED <<impl, lnd_proc, lnd_has_stub, lnd_wallet, lnd_unlocked,
                   lnd_channels, el_actual, el_wallets, el_wallet_file, el_channels,
                   wallets_made>>
    /\ UNCHANGED nonNode

\* LndNode.check_channel(remote) with _channel_with_remote: self.id(), then
\* ListChannels, then the lookup of remote's key
LndCheckChannelResult(p) ==
    IF LndIdOutcome # "ok" THEN LndIdOutcome
    ELSE IF LndStubCall # "ok" THEN LndStubCall
    ELSE IF lnd_channels[p] = "none" THEN "False"
    ELSE IF lnd_channels[p] = "active" THEN "True" ELSE "False"

LndNode_check_channel(p) ==
    /\ impl = "lnd"
    /\ myid' = LndIdAfter
    /\ result' = Returned("check_channel", p, LndCheckChannelResult(p), 0, <<>>)
    /\ UNCHANGED <<impl, lnd_proc, lnd_has_stub, lnd_wallet, lnd_unlocked,
                   lnd_channels, el_actual, el_wallets, el_wallet_file, el_channels,
                   wallets_made, first_id>>
    /\ UNCHANGED nonNode

\* (mutant: the except clause turns every error into False)
LndRouteError_CatchAll(text) == "False"

\* The except clause of LndNode.check_route: a _Rendezvous error whose text
\* holds the phrase at an index > 0 becomes False, any other is raised again.
LndRouteError(text) ==
    IF Find(text, NoPath) > 0 THEN "False" ELSE "_Rendezvous"

\* LndNode.check_route: self.rpc is the daemon, so the request goes to
\* self.daemon.stub; reply is what a serving lnd answers.
LndCheckRouteResult(reply) ==
    IF LndStubCall = "AttributeError" THEN "AttributeError"
    ELSE IF LndStubCall = "RpcError" THEN LndRouteError(<<"rpc error:", "unavailable">>)
    ELSE IF reply = Routes THEN "True"
    ELSE LndRouteError(reply)

LndNode_check_route(reply) ==
    /\ impl = "lnd"
    /\ result' = Returned("check_route", 0, LndCheckRouteResult(reply), 0,
                          IF LndStubCall = "ok" THEN reply ELSE <<>>)
    /\ UNCHANGED <<impl, lnd_proc, lnd_has_stub, lnd_wallet, lnd_unlocked, myid,
                   lnd_channels, el_actual, el_wallets, el_wallet_file, el_channels,
                   wallets_made, first_id>>
    /\ UNCHANGED nonNode

\* LndNode.restart: daemon.stop(), sleep, daemon.start(), then
\* `self.rpc = LndRpc(...)`, a name the module does not define.
LndNode_restart(init) ==
    /\ impl = "lnd"
    /\ lnd_proc # "absent"
    /\ init \in WalletInits(lnd_wallet)
    /\ init = "fresh" => wallets_made < MaxWallets
    /\ LndD_start_effect(init)
    /\ result' = Restarted(IF init = "fresh" THEN "NameError" ELSE "RpcError", lnd_wallet)
    /\ UNCHANGED <<impl, myid, el_actual, el_wallets, el_wallet_file, el_channels, first_id>>
    /\ UNCHANGED nonNode

(********************* ElectrumDaemon and ElectrumNode ********************)

ChanStates == {"OPEN", "OTHER"}

\* The property ElectrumNode.wallet: daemon.actual is None before the start, and
\* the assertion wants exactly one wallet.
ElWalletAccess ==
    IF el_actual = "none" THEN "AttributeError"
    ELSE IF el_wallets = 0 THEN "AssertionError"
    ELSE "ok"

\* ElectrumDaemon.start: Daemon(config), cmd_runner.create(), then the wallet is
\* loaded and added; where the directory holds a wallet already, create either
\* refuses (raises) or the new wallet takes its place.
ElectrumDaemon_start_effect(init) ==
    /\ el_actual' = "running"
    /\ IF init = "fresh"
       THEN /\ wallets_made' = wallets_made + 1
            /\ el_wallet_file' = wallets_made + 1
            /\ el_wallets' = wallets_made + 1
       ELSE /\ el_wallets' = 0
            /\ UNCHANGED <<wallets_made, el_wallet_file>>
    /\ el_channels' = <<>>

\* The node factory starts the daemon of a new handle: ElectrumDaemon.start
ElectrumDaemon_start ==
    /\ impl = "electrum"
    /\ el_actual = "none"
    /\ wallets_made < MaxWallets
    /\ ElectrumDaemon_start_effect("fresh")
    /\ result' = Returned("start", 0, "ok", 0, <<>>)
    /\ UNCHANGED <<impl, lnd_proc, lnd_has_stub, lnd_wallet, lnd_unlocked, myid,
                   lnd_channels, first_id>>
    /\ UNCHANGED nonNode

\* ElectrumDaemon.stop: nothing without a daemon; stop_threads() of the first
\* wallet (StopIteration when there is none), then actual.stop(). The stopped
\* daemon object and its wallets stay in place.
ElStopOutcome ==
    IF el_actual = "none" THEN "ok"
    ELSE IF el_wallets = 0 THEN "StopIteration"
    ELSE "ok"

ElectrumDaemon_stop ==
    /\ impl = "electrum"
    /\ el_actual = "running"
    /\ el_actual' = IF ElStopOutcome = "ok" THEN "stopped" ELSE el_actual
    /\ result' = Returned("stop", 0, ElStopOutcome, 0, <<>>)
    /\ UNCHANGED <<impl, lnd_proc, lnd_has_stub, lnd_wallet, lnd_unlocked, myid,
                   lnd_channels, el_wallets, el_wallet_file, el_channels,
                   wallets_made, first_id>>
    /\ UNCHANGED nonNode

\* The wallet's lnworker gets a channel with peer p
El_ChannelOpened(p, st) ==
    /\ impl = "electrum"
    /\ el_actual = "running" /\ el_wallets # 0
    /\ Len(el_channels) < MaxChans
    /\ el_channels' = Append(el_channels, [node_id |-> p, state |-> st])
    /\ UNCHANGED <<impl, lnd_proc, lnd_has_stub, lnd_wallet, lnd_unlocked, myid,
                   lnd_channels, el_actual, el_wallets, el_wallet_file,
                   wallets_made, result, first_id>>
    /\ UNCHANGED nonNode

\* A channel of the wallet changes its state
El_ChannelChange(i, st) ==
    /\ impl = "electrum"
    /\ el_actual = "running" /\ el_wallets # 0
    /\ i \in 1..Len(el_channels)
    /\ el_channels[i].state # st
    /\ el_channels' = [el_channels EXCEPT ![i].state = st]
    /\ UNCHANGED <<impl, lnd_proc, lnd_has_stub, lnd_wallet, lnd_unlocked, myid,
                   lnd_channels, el_actual, el_wallets, el_wallet_file,
                   wallets_made, result, first_id>>
    /\ UNCHANGED nonNode

\* ElectrumNode.ping: `return True`
ElPingResult == "True"

ElectrumNode_ping ==
    /\ impl = "electrum"
    /\ result' = Returned("ping", 0, ElPingResult, 0, <<>>)
    /\ UNCHANGED <<impl, lnd_proc, lnd_has_stub, lnd_wallet, lnd_unlocked, myid,
                   lnd_channels, el_actual, el_wallets, el_wallet_file, el_channels,
                   wallets_made, first_id>>
    /\ UNCHANGED nonNode

\* ElectrumNode.id: the public key of the wallet in the daemon, read at each call
ElectrumNode_id ==
    /\ impl = "electrum"
    /\ result' = IF ElWalletAccess = "ok"
                 THEN Returned("id", 0, "id", el_wallets, <<"resolved">>)
                 ELSE Returned("id", 0, ElWalletAccess, 0, <<>>)
    /\ first_id' = IF first_id = 0 /\ ElWalletAccess = "ok" THEN el_wallets ELSE first_id
    /\ UNCHANGED <<impl, lnd_proc, lnd_has_stub, lnd_wallet, lnd_unlocked, myid,
                   lnd_channels, el_actual, el_wallets, el_wallet_file, el_channels,
                   wallets_made>>
    /\ UNCHANGED nonNode

\* ElectrumNode.chan(node_id): the first channel of the wallet, asserted to be
\* the one with node_id
ElChan(p) ==
    IF ElWalletAccess # "ok" THEN ElWalletAccess
    ELSE IF el_channels = <<>> THEN "StopIteration"
    ELSE IF el_channels[1].node_id # p THEN "AssertionError"
    ELSE "found"

\* ElectrumNode.check_channel(remote): only StopIteration is caught
ElCheckChannelResult(p) ==
    IF ElChan(p) = "StopIteration" THEN "False"
    ELSE IF ElChan(p) = "found"
         THEN (IF el_channels[1].state = "OPEN" THEN "True" ELSE "False")
    ELSE ElChan(p)

ElectrumNode_check_channel(p) ==
    /\ impl = "electrum"
    /\ result' = Returned("check_channel", p, ElCheckChannelResult(p), 0, <<>>)
    /\ UNCHANGED <<impl, lnd_proc, lnd_has_stub, lnd_wallet, lnd_unlocked, myid,
                   lnd_channels, el_actual, el_wallets, el_wallet_file, el_channels,
                   wallets_made, first_id>>
    /\ UNCHANGED nonNode

\* What find_path_for_payment does on the network's event loop
PathFinds == {"path", "None", "Exception"}

\* ElectrumNode.check_route: `return coro.result()`, the path found, None, or the
\* error raised by the path finder
ElCheckRouteResult(found) ==
    IF ElWalletAccess # "ok" THEN ElWalletAccess ELSE found

\* (with the daemon stopped the coroutine is handed to a loop that no longer
\* runs; that call is not modelled)
ElectrumNode_check_route(found) ==
    /\ impl = "electrum"
    /\ el_actual # "stopped"
    /\ result' = Returned("check_route", 0, ElCheckRouteResult(found), 0,
                          IF ElWalletAccess = "ok" THEN <<found>> ELSE <<>>)
    /\ UNCHANGED <<impl, lnd_proc, lnd_has_stub, lnd_wallet, lnd_unlocked, myid,
                   lnd_channels, el_actual, el_wallets, el_wallet_file, el_channels,
                   wallets_made, first_id>>
    /\ UNCHANGED nonNode

\* ElectrumNode.restart: daemon.stop(), sleep, a new ElectrumDaemon, start()
ElectrumNode_restart(init) ==
    /\ impl = "electrum"
    /\ el_actual # "none"
    /\ IF ElStopOutcome # "ok"
       THEN /\ result' = Restarted(ElStopOutcome, el_wallets)
            /\ UNCHANGED <<el_actual, el_wallets, el_wallet_file, el_channels, wallets_made>>
       ELSE /\ init \in WalletInits(el_wallet_file)
            /\ init = "fresh" => wallets_made < MaxWallets
            /\ ElectrumDaemon_start_effect(init)
            /\ result' = Restarted(IF init = "fresh" THEN "ok" ELSE "Exception", el_wallets)
    /\ UNCHANGED <<impl, lnd_proc, lnd_has_stub, lnd_wallet, lnd_unlocked, myid,
                   lnd_channels, first_id>>
    /\ UNCHANGED nonNode

NextNode ==
    \/ LndD_start
    \/ LndD_stop
    \/ \E p \in Peers, st \in {"none", "inactive", "active"} : Lnd_ChannelChange(p, st)
    \/ LndNode_ping
    \/ LndNode_id
    \/ \E p \in Peers : LndNode_check_channel(p)
    \/ \E reply \in ErrorTexts \cup {Routes} : LndNode_check_route(reply)
    \/ \E init \in {"fresh", "rejected"} : LndNode_restart(init)
    \/ ElectrumDaemon_start
    \/ ElectrumDaemon_stop
    \/ \E p \in Peers, st \in ChanStates : El_ChannelOpened(p, st)
    \/ \E i \in 1..MaxChans, st \in ChanStates : El_ChannelChange(i, st)
    \/ ElectrumNode_ping
    \/ ElectrumNode_id
    \/ \E p \in Peers : ElectrumNode_check_channel(p)
    \/ \E found \in PathFinds : ElectrumNode_check_route(found)
    \/ \E init \in {"fresh", "rejected"} : ElectrumNode_restart(init)

(***************************************************************************)
(* addfunds of LndNode (src/lnd.py) and ElectrumNode (src/electrumutils.py) *)
(* on a started handle.                                                    *)
(***************************************************************************)
InitFunds ==
    /\ af_pc = "idle"
    /\ af_i = 0
    /\ satoshis = 0
    /\ sent = FALSE
    /\ total_balance = 0
    /\ addr_balance = <<0, 0, 0>>
    /\ last_poll = [read |-> FALSE, funded |-> FALSE]

AfFinal == {"returned", "AssertionError", "TimeoutError"}

\* LndNode.addfunds: NewAddress, sendtoaddress, then the first wait_for_log
LndAf_Call(s) ==
    /\ impl = "lnd"
    /\ af_pc = "idle"
    /\ satoshis' = s
    /\ sent' = TRUE
    /\ af_pc' = "wait_log1"
    /\ UNCHANGED <<impl, af_i, total_balance, addr_balance, last_poll>>
    /\ UNCHANGED nonFunds

\* daemon.wait_for_log("Inserting unconfirmed transaction") returns or gives
\* up; then bitcoind.rpc.generate(1)
LndAf_WaitLog1(found) ==
    /\ impl = "lnd"
    /\ af_pc = "wait_log1"
    /\ af_pc' = IF found THEN "wait_log2" ELSE "TimeoutError"
    /\ UNCHANGED <<impl, af_i, satoshis, sent, total_balance, addr_balance, last_poll>>
    /\ UNCHANGED nonFunds

\* daemon.wait_for_log("Marking unconfirmed transaction") returns or gives up;
\* then i = 0
LndAf_WaitLog2(found) ==
    /\ impl = "lnd"
    /\ af_pc = "wait_log2"
    /\ af_pc' = IF found THEN "loop" ELSE "TimeoutError"
    /\ af_i' = 0
    /\ UNCHANGED <<impl, satoshis, sent, total_balance, addr_balance, last_poll>>
    /\ UNCHANGED nonFunds

\* (mutant: the loop has no cap)
LndKeepsWaiting_NoCap == total_balance = satoshis

\* `while ...total_balance == satoshis and i < 30`: whether the loop body runs
LndKeepsWaiting == total_balance = satoshis /\ af_i < LndSettleCap

LndAf_LoopCond ==
    /\ impl = "lnd"
    /\ af_pc = "loop"
    /\ last_poll' = [read |-> TRUE, funded |-> total_balance = satoshis]
    /\ af_pc' = IF LndKeepsWaiting THEN "sleeping" ELSE "assert"
    /\ UNCHANGED <<impl, af_i, satoshis, sent, total_balance, addr_balance>>
    /\ UNCHANGED nonFunds

\* the loop body: time.sleep(1); i += 1
LndAf_Sleep ==
    /\ impl = "lnd"
    /\ af_pc = "sleeping"
    /\ af_i' = af_i + 1
    /\ af_pc' = "loop"
    /\ UNCHANGED <<impl, satoshis, sent, total_balance, addr_balance, last_poll>>
    /\ UNCHANGED nonFunds

\* assert(...total_balance == satoshis)
LndAf_Assert ==
    /\ impl = "lnd"
    /\ af_pc = "assert"
    /\ last_poll' = [read |-> TRUE, funded |-> total_balance = satoshis]
    /\ af_pc' = IF total_balance = satoshis THEN "returned" ELSE "AssertionError"
    /\ UNCHANGED <<impl, af_i, satoshis, sent, total_balance, addr_balance>>
    /\ UNCHANGED nonFunds

\* lnd's wallet comes to show the payment
Lnd_BalanceSettles ==
    /\ impl = "lnd"
    /\ sent
    /\ total_balance = 0
    /\ total_balance' = satoshis
    /\ UNCHANGED <<impl, af_pc, af_i, satoshis, sent, addr_balance, last_poll>>
    /\ UNCHANGED nonFunds

\* ElectrumNode.addfunds: an unused address with a zero balance, sendtoaddress,
\* generate(1)
ElAf_Call(s) ==
    /\ impl = "electrum"
    /\ af_pc = "idle"
    /\ satoshis' = s
    /\ IF addr_balance[1] + addr_balance[2] + addr_balance[3] = 0
       THEN /\ sent' = TRUE
            /\ af_pc' = "poll"
       ELSE /\ af_pc' = "AssertionError"
            /\ UNCHANGED sent
    /\ UNCHANGED <<impl, af_i, total_balance, addr_balance, last_poll>>
    /\ UNCHANGED nonFunds

\* `if matured + unmatured != 0: break`
ElFundsSeen == addr_balance[1] + addr_balance[3] # 0

\* one round of the `while True` loop, up to the break or the sleep
ElAf_Poll ==
    /\ impl = "electrum"
    /\ af_pc = "poll"
    /\ last_poll' = [read |-> TRUE, funded |-> ElFundsSeen]
    /\ af_pc' = IF ElFundsSeen THEN "returned" ELSE "sleeping"
    /\ UNCHANGED <<impl, af_i, satoshis, sent, total_balance, addr_balance>>
    /\ UNCHANGED nonFunds

\* time.sleep(1)
ElAf_Sleep ==
    /\ impl = "electrum"
    /\ af_pc = "sleeping"
    /\ af_pc' = "poll"
    /\ UNCHANGED <<impl, af_i, satoshis, sent, total_balance, addr_balance, last_poll>>
    /\ UNCHANGED nonFunds

\* the wallet sees the payment in the mempool
El_SeesTx ==
    /\ impl = "electrum"
    /\ sent
    /\ addr_balance = <<0, 0, 0>>
    /\ addr_balance' = <<0, satoshis, 0>>
    /\ UNCHANGED <<impl, af_pc, af_i, satoshis, sent, total_balance, last_poll>>
    /\ UNCHANGED nonFunds

\* the wallet sees the payment in a block
El_SeesBlock ==
    /\ impl = "electrum"
    /\ sent
    /\ addr_balance[1] = 0
    /\ addr_balance' = <<satoshis, 0, 0>>
    /\ UNCHANGED <<impl, af_pc, af_i, satoshis, sent, total_balance, last_poll>>
    /\ UNCHANGED nonFunds

\* the steps of the thread that runs addfunds
AddfundsStep ==
    \/ \E s \in 1..MaxAmount : LndAf_Call(s)
    \/ \E found \in BOOLEAN : LndAf_WaitLog1(found)
    \/ \E found \in BOOLEAN : LndAf_WaitLog2(found)
    \/ LndAf_LoopCond
    \/ LndAf_Sleep
    \/ LndAf_Assert
    \/ \E s \in 1..MaxAmount : ElAf_Call(s)
    \/ ElAf_Poll
    \/ ElAf_Sleep

NextFunds ==
    \/ AddfundsStep
    \/ Lnd_BalanceSettles
    \/ El_SeesTx
    \/ El_SeesBlock

(***************************************************************************)
(* confirm_channel (src/test.py) on two started nodes n1 and n2.           *)
(***************************************************************************)
\* `for i in range(10)`
ConfirmRounds == 10

\* what a check_channel call gives: a boolean, or an error
CheckOutcomes == {"True", "False", "raise"}

InitConf ==
    /\ cc_pc = "idle"
    /\ cc_i = 0
    /\ cc_mined = 0
    /\ cc_bhash = 0
    /\ cc_synced = <<0, 0>>
    /\ cc_last = <<"none", "none">>
    /\ cc_polls = 0
    /\ cc_result = "none"

\* confirm_channel(bitcoind, n1, n2): the two assertions on peers()
Confirm_Call(peered) ==
    /\ cc_pc = "idle"
    /\ IF peered
       THEN /\ cc_pc' = "sleep"
            /\ UNCHANGED cc_result
       ELSE /\ cc_pc' = "done"
            /\ cc_result' = "AssertionError"
    /\ UNCHANGED <<cc_i, cc_mined, cc_bhash, cc_synced, cc_last, cc_polls>>
    /\ UNCHANGED nonConf

\* time.sleep(2)
Confirm_Sleep ==
    /\ cc_pc = "sleep"
    /\ cc_pc' = "poll1"
    /\ UNCHANGED <<cc_i, cc_mined, cc_bhash, cc_synced, cc_last, cc_polls, cc_result>>
    /\ UNCHANGED nonConf

\* n1.check_channel(n2), the left operand of `and`
Confirm_Poll1(r) ==
    /\ cc_pc = "poll1"
    /\ cc_polls' = cc_polls + 1
    /\ cc_last' = <<r, "none">>
    /\ IF r = "raise"
       THEN /\ cc_pc' = "done"
            /\ cc_result' = "error"
       ELSE /\ cc_pc' = IF r = "True" THEN "poll2" ELSE "decide"
            /\ UNCHANGED cc_result
    /\ UNCHANGED <<cc_i, cc_mined, cc_bhash, cc_synced>>
    /\ UNCHANGED nonConf

\* n2.check_channel(n1), the right operand, evaluated only after a true left one
Confirm_Poll2(r) ==
    /\ cc_pc = "poll2"
    /\ cc_last' = <<cc_last[1], r>>
    /\ IF r = "raise"
       THEN /\ cc_pc' = "done"
            /\ cc_result' = "error"
       ELSE /\ cc_pc' = "decide"
            /\ UNCHANGED cc_result
    /\ UNCHANGED <<cc_i, cc_mined, cc_bhash, cc_synced, cc_polls>>
    /\ UNCHANGED nonConf

\* (mutant: one of the two checks is enough)
AndValue_Either(a, b) == IF a = "True" \/ b = "True" THEN "True" ELSE "False"

\* the value of `a and b`: a when a is false, b otherwise
AndValue(a, b) == IF a = "True" THEN b ELSE a

\* `if ...: return True` in the loop, and the `return ...` after the loop
Confirm_Decide ==
    /\ cc_pc = "decide"
    /\ LET v == AndValue(cc_last[1], cc_last[2]) IN
        IF cc_i < ConfirmRounds /\ v # "True"
        THEN /\ cc_pc' = "generate"
             /\ UNCHANGED cc_result
        ELSE /\ cc_pc' = "done"
             /\ cc_result' = v
    /\ UNCHANGED <<cc_i, cc_mined, cc_bhash, cc_synced, cc_last, cc_polls>>
    /\ UNCHANGED nonConf

\* bhash = bitcoind.rpc.generate(1)[0]
Confirm_Generate ==
    /\ cc_pc = "generate"
    /\ cc_mined' = cc_mined + 1
    /\ cc_bhash' = cc_mined + 1
    /\ cc_pc' = "sync1"
    /\ UNCHANGED <<cc_i, cc_synced, cc_last, cc_polls, cc_result>>
    /\ UNCHANGED nonConf

\* n1.block_sync(bhash) returns, or raises
Confirm_Sync1(ok) ==
    /\ cc_pc = "sync1"
    /\ cc_synced' = <<cc_bhash, cc_synced[2]>>
    /\ cc_pc' = IF ok THEN "sync2" ELSE "done"
    /\ cc_result' = IF ok THEN cc_result ELSE "error"
    /\ UNCHANGED <<cc_i, cc_mined, cc_bhash, cc_last, cc_polls>>
    /\ UNCHANGED nonConf

\* n2.block_sync(bhash) returns, or raises; then the next i of range(10)
Confirm_Sync2(ok) ==
    /\ cc_pc = "sync2"
    /\ cc_synced' = <<cc_synced[1], cc_bhash>>
    /\ IF ok
       THEN /\ cc_i' = cc_i + 1
            /\ cc_pc' = IF cc_i + 1 < ConfirmRounds THEN "sleep" ELSE "poll1"
            /\ UNCHANGED cc_result
       ELSE /\ cc_pc' = "done"
            /\ cc_result' = "error"
            /\ UNCHANGED cc_i
    /\ UNCHANGED <<cc_mined, cc_bhash, cc_last, cc_polls>>
    /\ UNCHANGED nonConf

(***************************************************************************)
(* getchannels and getnodes of LndNode (src/lnd.py) and ElectrumNode       *)
(* (src/electrumutils.py) on a started node.                               *)
(***************************************************************************)
NodeIds == 1..MaxNodes
\* the node behind the handle
SelfId == 1

\* a public key as raw bytes, and as the hexadecimal string of these bytes
Bytes(n) == <<"bytes", n>>
Hex(n) == <<"hex", n>>
\* bh2u = lambda x: binascii.hexlify(x).decode('ascii')
bh2u(x) == <<"hex", x[2]>>

NoGossipResult == [op |-> "none", val |-> "none", list |-> <<>>, set |-> {}]

InitGossip ==
    /\ g_nodes = {}
    /\ g_edges = <<>>
    /\ g_myid = <<>>
    /\ g_result = NoGossipResult

\* the backend learns of a node
Gossip_Node(n) ==
    /\ g_result.op = "none"
    /\ n \notin g_nodes
    /\ g_nodes' = g_nodes \cup {n}
    /\ UNCHANGED <<impl, g_edges, g_myid, g_result>>
    /\ UNCHANGED nonGossip

\* the backend learns of a channel between a and b, and of its two nodes
Gossip_Channel(a, b) ==
    /\ g_result.op = "none"
    /\ a # b
    /\ Len(g_edges) < MaxEdges
    /\ g_edges' = Append(g_edges, <<a, b>>)
    /\ g_nodes' = g_nodes \cup {a, b}
    /\ UNCHANGED <<impl, g_myid, g_result>>
    /\ UNCHANGED nonGossip

\* (mutant: a channel is listed in the direction it is stored in only)
BothDirections_One(x, y) == <<<<x, y>>>>

\* channels.append((x, y)); channels.append((y, x))
BothDirections(x, y) == <<<<x, y>>, <<y, x>>>>

\* the elements of a list
Elements(list) == {list[k] : k \in 1..Len(list)}

\* LndNode.getchannels: the list built over rep.edges; lnd gives the keys as
\* hexadecimal strings
RECURSIVE LndChannelList(_)
LndChannelList(edges) ==
    IF edges = <<>> THEN <<>>
    ELSE BothDirections(Hex(Head(edges)[1]), Hex(Head(edges)[2]))
             \o LndChannelList(Tail(edges))

LndNode_getchannels ==
    /\ impl = "lnd"
    /\ g_result.op = "none"
    /\ g_result' = [op |-> "getchannels", val |-> "returned",
                    list |-> LndChannelList(g_edges), set |-> {}]
    /\ UNCHANGED <<impl, g_nodes, g_edges, g_myid>>
    /\ UNCHANGED nonGossip

\* ElectrumNode.getchannels: the set built over the channel infos, whose node
\* ids are bytes
ElChannelSet(edges) ==
    UNION {Elements(BothDirections(bh2u(Bytes(edges[i][1])), bh2u(Bytes(edges[i][2])))) :
               i \in 1..Len(edges)}

ElectrumNode_getchannels ==
    /\ impl = "electrum"
    /\ g_result.op = "none"
    /\ g_result' = [op |-> "getchannels", val |-> "returned",
                    list |-> <<>>, set |-> ElChannelSet(g_edges)]
    /\ UNCHANGED <<impl, g_nodes, g_edges, g_myid>>
    /\ UNCHANGED nonGossip

\* LndNode.getnodes: set of the pub_key of rep.nodes, minus set([self.id()]);
\* id() fills the identity cache
LndNode_getnodes ==
    /\ impl = "lnd"
    /\ g_result.op = "none"
    /\ g_myid' = IF g_myid = <<>> THEN Hex(SelfId) ELSE g_myid
    /\ g_result' = [op |-> "getnodes", val |-> "returned", list |-> <<>>,
                    set |-> {Hex(n) : n \in g_nodes} \ {g_myid'}]
    /\ UNCHANGED <<impl, g_nodes, g_edges>>
    /\ UNCHANGED nonGossip

\* the set ElectrumNode.getnodes builds over the channel infos
ElEndpoints(edges) ==
    UNION {{bh2u(Bytes(edges[i][1])), bh2u(Bytes(edges[i][2]))} : i \in 1..Len(edges)}

\* set.remove(x): KeyError when x is not a member
SetRemove(set, x) ==
    IF x \in set THEN [val |-> "returned", set |-> set \ {x}]
    ELSE [val |-> "KeyError", set |-> {}]

\* ElectrumNode.getnodes: nodes.remove(self.wallet.lnworker.node_keypair.pubkey),
\* the key as bytes
ElectrumNode_getnodes ==
    /\ impl = "electrum"
    /\ g_result.op = "none"
    /\ LET r == SetRemove(ElEndpoints(g_edges), Bytes(SelfId)) IN
        g_result' = [op |-> "getnodes", val |-> r.val, list |-> <<>>, set |-> r.set]
    /\ UNCHANGED <<impl, g_nodes, g_edges, g_myid>>
    /\ UNCHANGED nonGossip

NextGossip ==
    \/ \E n \in NodeIds : Gossip_Node(n)
    \/ \E a, b \in NodeIds : Gossip_Channel(a, b)
    \/ LndNode_getchannels
    \/ ElectrumNode_getchannels
    \/ LndNode_getnodes
    \/ ElectrumNode_getnodes

(***************************************************************************)
(* openchannel of LndNode (src/lnd.py) and ElectrumNode                    *)
(* (src/electrumutils.py) on a started node.                               *)
(***************************************************************************)
\* the to_self_delay a remote side may ask for
CsvDelays == 1..MaxCsv

NoChannel == [node_id |-> 0, txid |-> 0, remote_csv |-> 0]
NoPayment == [hash |-> <<>>, outcome |-> "none", error |-> "none"]
\* op: the operation; val: returned, or the error raised; kind: the type of
\* the value returned; txid, csv: the two parts of a returned pair; pre: a
\* returned preimage; text: the text of the error raised
NoChanResult == [op |-> "none", val |-> "none", kind |-> "none", txid |-> 0,
                 csv |-> 0, pre |-> <<>>, text |-> "none"]

InitChan ==
    /\ ch_peers = {}
    /\ ch_channels = <<>>
    /\ ch_txs = 0
    /\ ch_opened = NoChannel
    /\ ch_pay = NoPayment
    /\ ch_result = NoChanResult

\* a connection to peer p comes up
Ch_PeerConnects(p) ==
    /\ p \notin ch_peers
    /\ ch_peers' = ch_peers \cup {p}
    /\ UNCHANGED <<impl, ch_channels, ch_txs, ch_opened, ch_pay, ch_result>>
    /\ UNCHANGED nonChan

\* the connection to peer p is lost
Ch_PeerDisconnects(p) ==
    /\ p \in ch_peers
    /\ ch_peers' = ch_peers \ {p}
    /\ UNCHANGED <<impl, ch_channels, ch_txs, ch_opened, ch_pay, ch_result>>
    /\ UNCHANGED nonChan

\* what the backend does with a request to open a channel with a connected peer
OpenOutcomes == {"ok", "refused"}

\* the backend opens a channel with p: a new funding transaction, and the
\* to_self_delay d of the remote side's configuration
BackendOpens(p, d) ==
    /\ ch_txs' = ch_txs + 1
    /\ ch_opened' = [node_id |-> p, txid |-> ch_txs + 1, remote_csv |-> d]
    /\ ch_channels' = Append(ch_channels, ch_opened')

OpenFailed(error) ==
    /\ ch_result' = [NoChanResult EXCEPT !.op = "openchannel", !.val = error]
    /\ ch_opened' = NoChannel
    /\ UNCHANGED <<ch_channels, ch_txs>>

\* LndNode.openchannel ends after time.sleep(5) without a return statement
LndOpenchannelReturn ==
    [NoChanResult EXCEPT !.op = "openchannel", !.val = "returned", !.kind = "None"]

\* LndNode.openchannel(node_id, host, port, satoshis)
LndNode_openchannel(p, outcome, d) ==
    /\ impl = "lnd"
    /\ Len(ch_channels) < MaxChans
    /\ IF p \notin ch_peers THEN OpenFailed("ValueError")
       ELSE IF outcome = "refused" THEN OpenFailed("RpcError")
       ELSE /\ BackendOpens(p, d)
            /\ ch_result' = LndOpenchannelReturn
    /\ UNCHANGED <<impl, ch_peers, ch_pay>>
    /\ UNCHANGED nonChan

\* self.chan(node_id) on the channels: the first one, asserted to be node_id's
FirstChan(channels, p) ==
    IF channels = <<>> THEN [val |-> "StopIteration", chan |-> NoChannel]
    ELSE IF channels[1].node_id # p THEN [val |-> "AssertionError", chan |-> NoChannel]
    ELSE [val |-> "found", chan |-> channels[1]]

\* ElectrumNode.openchannel(node_id, host, port, satoshis)
ElectrumNode_openchannel(p, outcome, d) ==
    /\ impl = "electrum"
    /\ Len(ch_channels) < MaxChans
    /\ IF p \notin ch_peers \/ outcome = "refused" THEN OpenFailed("Exception")
       ELSE /\ BackendOpens(p, d)
            /\ LET c == FirstChan(ch_channels', p) IN
                ch_result' = IF c.val = "found"
                             THEN [NoChanResult EXCEPT !.op = "openchannel",
                                       !.val = "returned", !.kind = "pair",
                                       !.txid = c.chan.txid, !.csv = c.chan.remote_csv]
                             ELSE [NoChanResult EXCEPT !.op = "openchannel", !.val = c.val]
    /\ UNCHANGED <<impl, ch_peers, ch_pay>>
    /\ UNCHANGED nonChan

(***************************************************************************)
(* send of LndNode (src/lnd.py) and ElectrumNode (src/electrumutils.py).   *)
(***************************************************************************)
\* the preimages of the invoices; an invoice carries the hash of its preimage
Preimages == 1..MaxPreimages
Sha256(bytes) == <<"sha256", bytes[2]>>
\* binascii.hexlify: the hexadecimal digits of the bytes, as bytes
Hexlify(bytes) == <<"hexbytes", bytes[2]>>
\* binascii.unhexlify takes the digits as bytes or as a string
Unhexlify(digits) == <<"bytes", digits[2]>>

\* the error strings of a backend that rejects a payment
PaymentErrors == {NoPath, "invoice expired"}

SendReturns(digits) ==
    [NoChanResult EXCEPT !.op = "send", !.val = "returned", !.kind = "preimage",
                         !.pre = digits]
SendRaises(error, text) ==
    [NoChanResult EXCEPT !.op = "send", !.val = error, !.text = text]

\* what lnd does with SendPaymentSync: the payment settles, lnd rejects it
\* (payment_error is set), or the call itself fails
LndPayOutcomes == {"settled", "rejected", "unavailable"}

\* LndNode.send after SendPaymentSync returned res
LndSendResult(res) ==
    IF res.payment_error # "" THEN SendRaises("ValueError", res.payment_error)
    ELSE SendReturns(Hexlify(res.payment_preimage))

\* LndNode.send(bolt11) for the invoice with preimage r
LndNode_send(r, outcome, error) ==
    /\ impl = "lnd"
    /\ ch_pay' = [hash |-> Sha256(Bytes(r)),
                  outcome |-> IF outcome = "unavailable" THEN "none" ELSE outcome,
                  error |-> IF outcome = "rejected" THEN error ELSE "none"]
    /\ ch_result' =
          CASE outcome = "unavailable" -> SendRaises("RpcError", "unavailable")
            [] outcome = "rejected" ->
                   LndSendResult([payment_error |-> error, payment_preimage |-> Bytes(0)])
            [] OTHER ->
                   LndSendResult([payment_error |-> "", payment_preimage |-> Bytes(r)])
    /\ UNCHANGED <<impl, ch_peers, ch_channels, ch_txs, ch_opened>>
    /\ UNCHANGED nonChan

\* what electrum does with the payment: lnworker.pay or its coroutine raises
\* (rejected_on_add); the HTLC is added and the remote side fulfils it within
\* 5 s (settled), fails it (rejected), or does neither in that time (pending)
ElPayOutcomes == {"settled", "rejected_on_add", "rejected", "pending"}

\* ElectrumNode.send: payment_preimages[addr.paymenthash].get() under result(5)
ElAwaitPreimage(outcome, r) ==
    IF outcome = "settled" THEN SendReturns(bh2u(Bytes(r)))
    ELSE SendRaises("TimeoutError", "")

\* ElectrumNode.send(req) with add_htlc, for the invoice with preimage r
ElectrumNode_send(r, outcome, error) ==
    /\ impl = "electrum"
    /\ ch_pay' = [hash |-> Sha256(Bytes(r)),
                  outcome |-> IF outcome = "rejected_on_add" THEN "rejected" ELSE outcome,
                  error |-> IF outcome \in {"rejected_on_add", "rejected"} THEN error ELSE "none"]
    /\ ch_result' = IF outcome = "rejected_on_add" THEN SendRaises("Exception", error)
                    ELSE ElAwaitPreimage(outcome, r)
    /\ UNCHANGED <<impl, ch_peers, ch_channels, ch_txs, ch_opened>>
    /\ UNCHANGED nonChan

NextChan ==
    \/ \E p \in Peers : Ch_PeerConnects(p)
    \/ \E p \in Peers : Ch_PeerDisconnects(p)
    \/ \E p \in Peers, o \in OpenOutcomes, d \in CsvDelays : LndNode_openchannel(p, o, d)
    \/ \E p \in Peers, o \in OpenOutcomes, d \in CsvDelays : ElectrumNode_openchannel(p, o, d)
    \/ \E r \in Preimages, o \in LndPayOutcomes, e \in PaymentErrors : LndNode_send(r, o, e)
    \/ \E r \in Preimages, o \in ElPayOutcomes, e \in PaymentErrors : ElectrumNode_send(r, o, e)

(***************************************************************************)
(* restart of LndNode with LndD.stop / start (src/lnd.py) and of           *)
(* ElectrumNode with ElectrumDaemon.stop / start (src/electrumutils.py),   *)
(* step by step.                                                           *)
(***************************************************************************)
InitProc ==
    /\ rs_pc = [h \in Handles |-> "new"]
    /\ rs_spawned = [h \in Handles |-> 0]
    /\ rs_running = [h \in Handles |-> {}]
    /\ rs_signalled = [h \in Handles |-> {}]
    /\ rs_proc = [h \in Handles |-> 0]
    /\ rs_wallet = [h \in Handles |-> FALSE]
    /\ rs_settled = [h \in Handles |-> FALSE]
    /\ rs_restarts = [h \in Handles |-> 0]
    /\ rs_result = [h \in Handles |-> "none"]

\* how daemon.start() ends once the new process runs: LndD.start may fail at
\* the wallet (RpcError); ElectrumDaemon.start may fail before add_wallet
\* (Exception)
StartEnds ==
    IF impl = "lnd" THEN {"RpcError", "ok"} ELSE {"Exception", "ok"}

\* daemon.start() spawns lnd, or makes the electrum Daemon: one more is running
\* for handle h, and the daemon object holds it
Spawn(h, end) ==
    /\ end \in StartEnds
    /\ rs_spawned' = [rs_spawned EXCEPT ![h] = @ + 1]
    /\ rs_running' = [rs_running EXCEPT ![h] = @ \cup {rs_spawned[h] + 1}]
    /\ rs_proc' = [rs_proc EXCEPT ![h] = rs_spawned[h] + 1]
    /\ rs_wallet' = [rs_wallet EXCEPT ![h] = (end = "ok")]
    /\ rs_settled' = [rs_settled EXCEPT ![h] = FALSE]

\* the first daemon.start() of the handle
Rs_FirstStart(h, end) ==
    /\ rs_pc[h] = "new"
    /\ Spawn(h, end)
    /\ rs_pc' = [rs_pc EXCEPT ![h] = "idle"]
    /\ rs_result' = [rs_result EXCEPT ![h] = end]
    /\ UNCHANGED <<impl, rs_signalled, rs_restarts>>
    /\ UNCHANGED nonProc

\* LndNode.restart: self.daemon.stop() begins with self.proc.terminate()
LndRestart_Terminate(h) ==
    /\ impl = "lnd"
    /\ rs_pc[h] = "idle"
    /\ rs_restarts[h] < MaxRestarts
    /\ rs_signalled' = [rs_signalled EXCEPT ![h] = @ \cup {rs_proc[h]}]
    /\ rs_pc' = [rs_pc EXCEPT ![h] = "stop_sleep"]
    /\ rs_restarts' = [rs_restarts EXCEPT ![h] = @ + 1]
    /\ rs_result' = [rs_result EXCEPT ![h] = "none"]
    /\ UNCHANGED <<impl, rs_spawned, rs_running, rs_proc, rs_wallet, rs_settled>>
    /\ UNCHANGED nonProc

\* an lnd that was sent SIGTERM exits
Lnd_ExitsOnSignal(h, p) ==
    /\ impl = "lnd"
    /\ p \in rs_running[h] \cap rs_signalled[h]
    /\ rs_running' = [rs_running EXCEPT ![h] = @ \ {p}]
    /\ UNCHANGED <<impl, rs_pc, rs_spawned, rs_signalled, rs_proc, rs_wallet,
                   rs_settled, rs_restarts, rs_result>>
    /\ UNCHANGED nonProc

\* (mutant: stop never kills)
LndStillAlive_Never(h) == FALSE

\* `self.proc.poll() is None`
LndStillAlive(h) == rs_proc[h] \in rs_running[h]

\* LndD.stop after time.sleep(3): kill() and wait() when the process is still
\* alive; then save_log()
LndStop_PollAndKill(h) ==
    /\ impl = "lnd"
    /\ rs_pc[h] = "stop_sleep"
    /\ rs_running' = [rs_running EXCEPT ![h] =
                         IF LndStillAlive(h) THEN @ \ {rs_proc[h]} ELSE @]
    /\ rs_pc' = [rs_pc EXCEPT ![h] = "settle"]
    /\ UNCHANGED <<impl, rs_spawned, rs_signalled, rs_proc, rs_wallet, rs_settled,
                   rs_restarts, rs_result>>
    /\ UNCHANGED nonProc

\* ElectrumNode.restart: self.daemon.stop(), that is stop_threads() of the first
\* wallet (StopIteration when the daemon has none, which ends restart) and
\* actual.stop(), which stops the Daemon
ElRestart_Stop(h) ==
    /\ impl = "electrum"
    /\ rs_pc[h] = "idle"
    /\ rs_restarts[h] < MaxRestarts
    /\ rs_restarts' = [rs_restarts EXCEPT ![h] = @ + 1]
    /\ IF rs_wallet[h]
       THEN /\ rs_running' = [rs_running EXCEPT ![h] = @ \ {rs_proc[h]}]
            /\ rs_pc' = [rs_pc EXCEPT ![h] = "settle"]
            /\ rs_result' = [rs_result EXCEPT ![h] = "none"]
       ELSE /\ rs_result' = [rs_result EXCEPT ![h] = "StopIteration"]
            /\ UNCHANGED <<rs_running, rs_pc>>
    /\ UNCHANGED <<impl, rs_spawned, rs_signalled, rs_proc, rs_wallet, rs_settled>>
    /\ UNCHANGED nonProc

\* time.sleep(5) of restart
Restart_Settle(h) ==
    /\ rs_pc[h] = "settle"
    /\ rs_settled' = [rs_settled EXCEPT ![h] = TRUE]
    /\ rs_pc' = [rs_pc EXCEPT ![h] = "start"]
    /\ UNCHANGED <<impl, rs_spawned, rs_running, rs_signalled, rs_proc, rs_wallet,
                   rs_restarts, rs_result>>
    /\ UNCHANGED nonProc

\* how restart ends after its daemon.start(): LndNode.restart goes on to
\* LndRpc(...), a name lnd.py does not define
RestartEnd(end) ==
    IF impl = "lnd" /\ end = "ok" THEN "NameError" ELSE end

\* self.daemon.start() of restart, on a new ElectrumDaemon for ElectrumNode
Restart_Start(h, end) ==
    /\ rs_pc[h] = "start"
    /\ Spawn(h, end)
    /\ rs_result' = [rs_result EXCEPT ![h] = RestartEnd(end)]
    /\ rs_pc' = [rs_pc EXCEPT ![h] = "idle"]
    /\ UNCHANGED <<impl, rs_signalled, rs_restarts>>
    /\ UNCHANGED nonProc

NextProc ==
    \E h \in Handles :
        \/ \E end \in {"RpcError", "Exception", "ok"} : Rs_FirstStart(h, end)
        \/ LndRestart_Terminate(h)
        \/ \E p \in 1..(MaxRestarts + 1) : Lnd_ExitsOnSignal(h, p)
        \/ LndStop_PollAndKill(h)
        \/ ElRestart_Stop(h)
        \/ Restart_Settle(h)
        \/ \E end \in {"RpcError", "Exception", "ok"} : Restart_Start(h, end)

(***************************************************************************)
(* ElectrumX.start, kill and wait (src/electrumutils.py), with the thread  *)
(* of start and its event loop step by step.                               *)
(***************************************************************************)
\* __init__: a new event loop that does not run yet, and an Event that is not set
InitEx ==
    /\ ex_thread = "none"
    /\ ex_closed = FALSE
    /\ ex_callbacks = 0
    /\ ex_tasks = 0
    /\ ex_evt = FALSE
    /\ ex_serve = "pending"
    /\ ex_kills = 0
    /\ ex_kill = "none"
    /\ ex_wait = "none"

\* the calling thread is not blocked inside thread.join()
CallerFree == ex_wait # "joining"

\* start(): makes the thread and starts it
Ex_start ==
    /\ CallerFree
    /\ ex_thread = "none"
    /\ ex_thread' = "setup"
    /\ UNCHANGED <<ex_closed, ex_callbacks, ex_tasks, ex_evt, ex_serve, ex_kills, ex_kill,
                   ex_wait>>
    /\ UNCHANGED nonEx

\* (mutant: a loop that does not run yet refuses the callback)
LoopAccepts_OnlyRunning == ex_thread = "running"

\* call_soon_threadsafe takes a callback unless the loop is closed, whether or
\* not the loop runs already
LoopAccepts == ~ex_closed

\* kill(): asyncio.run_coroutine_threadsafe(set_evt(), self.loop) hands the loop
\* a callback that will make the task of set_evt; the future is not waited for
Ex_kill ==
    /\ CallerFree
    /\ ex_kills < MaxKills
    /\ ex_kills' = ex_kills + 1
    /\ IF LoopAccepts
       THEN /\ ex_callbacks' = ex_callbacks + 1
            /\ ex_kill' = "returned"
       ELSE /\ ex_kill' = "RuntimeError"
            /\ UNCHANGED ex_callbacks
    /\ UNCHANGED <<ex_thread, ex_closed, ex_tasks, ex_evt, ex_serve, ex_wait>>
    /\ UNCHANGED nonEx

\* wait(): self.thread.join(); self.thread exists only after start()
Ex_wait ==
    /\ CallerFree
    /\ ex_wait = "none"
    /\ ex_wait' = IF ex_thread = "none" THEN "AttributeError" ELSE "joining"
    /\ UNCHANGED <<ex_thread, ex_closed, ex_callbacks, ex_tasks, ex_evt, ex_serve, ex_kills,
                   ex_kill>>
    /\ UNCHANGED nonEx

\* join() returns once the thread has ended
Ex_joined ==
    /\ ex_wait = "joining"
    /\ ex_thread = "ended"
    /\ ex_wait' = "returned"
    /\ UNCHANGED <<ex_thread, ex_closed, ex_callbacks, ex_tasks, ex_evt, ex_serve, ex_kills,
                   ex_kill>>
    /\ UNCHANGED nonEx

\* target() up to loop.run_until_complete(...): set_event_loop, Env(),
\* Controller(env); an error in these ends the thread
Target_Setup(ok) ==
    /\ ex_thread = "setup"
    /\ ex_thread' = IF ok THEN "running" ELSE "ended"
    /\ UNCHANGED <<ex_closed, ex_callbacks, ex_tasks, ex_evt, ex_serve, ex_kills, ex_kill,
                   ex_wait>>
    /\ UNCHANGED nonEx

\* the running loop runs a callback of kill(): the task of set_evt is made
Loop_RunCallback ==
    /\ ex_thread = "running"
    /\ ex_callbacks > 0
    /\ ex_callbacks' = ex_callbacks - 1
    /\ ex_tasks' = ex_tasks + 1
    /\ UNCHANGED <<ex_thread, ex_closed, ex_evt, ex_serve, ex_kills, ex_kill, ex_wait>>
    /\ UNCHANGED nonEx

\* the running loop runs a task of set_evt: self.evt.set()
Loop_SetEvt ==
    /\ ex_thread = "running"
    /\ ex_tasks > 0
    /\ ex_tasks' = ex_tasks - 1
    /\ ex_evt' = TRUE
    /\ UNCHANGED <<ex_thread, ex_closed, ex_callbacks, ex_serve, ex_kills, ex_kill, ex_wait>>
    /\ UNCHANGED nonEx

\* controller.serve(evt) ends by itself, with a result or an error
Loop_ServeEnds ==
    /\ ex_thread = "running"
    /\ ex_serve = "pending"
    /\ ex_serve' = "done"
    /\ UNCHANGED <<ex_thread, ex_closed, ex_callbacks, ex_tasks, ex_evt, ex_kills, ex_kill,
                   ex_wait>>
    /\ UNCHANGED nonEx

\* asyncio.wait(..., return_when=FIRST_COMPLETED) is done: one of serve(evt)
\* and evt.wait() has completed
FirstCompleted == ex_evt \/ ex_serve = "done"

\* run_until_complete returns
Loop_Complete ==
    /\ ex_thread = "running"
    /\ FirstCompleted
    /\ ex_thread' = "closing"
    /\ UNCHANGED <<ex_closed, ex_callbacks, ex_tasks, ex_evt, ex_serve, ex_kills, ex_kill,
                   ex_wait>>
    /\ UNCHANGED nonEx

\* loop.close(), which drops what the loop has not run; target() returns
Target_Close ==
    /\ ex_thread = "closing"
    /\ ex_closed' = TRUE
    /\ ex_callbacks' = 0
    /\ ex_tasks' = 0
    /\ ex_thread' = "ended"
    /\ UNCHANGED <<ex_evt, ex_serve, ex_kills, ex_kill, ex_wait>>
    /\ UNCHANGED nonEx

\* the steps of the server thread and of its event loop
ThreadStep ==
    \/ Target_Setup(TRUE)
    \/ Loop_RunCallback
    \/ Loop_SetEvt
    \/ Loop_Complete
    \/ Target_Close

NextEx ==
    \/ Ex_start
    \/ Ex_kill
    \/ Ex_wait
    \/ Ex_joined
    \/ \E ok \in BOOLEAN : Target_Setup(ok)
    \/ Loop_RunCallback
    \/ Loop_SetEvt
    \/ Loop_ServeEnds
    \/ Loop_Complete
    \/ Target_Close

(***************************************************************************)
(* The ElectrumNode methods that hand a coroutine to an event loop from    *)
(* the calling thread: connect, send, check_route, force_close, tx_heights *)
(* (src/electrumutils.py). The network loop runs in a thread of its own.   *)
(***************************************************************************)
InitX ==
    /\ x_op = "none"
    /\ x_loop = "network"
    /\ x_bounded = FALSE
    /\ x_secs = 0
    /\ x_exec = "queued"
    /\ x_elapsed = 0
    /\ x_result = "none"

CrossThreadOps == {"connect", "send", "check_route", "force_close", "tx_heights"}

\* what asyncio.get_event_loop() gives the calling thread: the loop the network
\* runs on when that is the thread's current loop, and another loop otherwise
CallerLoops == {"network", "other"}

\* the loop argument of run_coroutine_threadsafe: connect passes
\* asyncio.get_event_loop(), the other methods wallet.network.asyncio_loop
SubmitLoop(op, cur) == IF op = "connect" THEN cur ELSE "network"

\* whether .result(...) is given a timeout: check_route calls coro.result()
HasTimeout(op) == op # "check_route"

\* the timeout of .result(...): 5 s, or tx_heights' parameter seconds
ResultTimeout(op, seconds) ==
    IF op = "check_route" THEN 0 ELSE IF op = "tx_heights" THEN seconds ELSE 5

\* the call up to the blocking .result(): the coroutine is submitted
X_Submit(op, cur, seconds) ==
    /\ x_op = "none" \/ x_result # "none"
    /\ x_op' = op
    /\ x_loop' = SubmitLoop(op, cur)
    /\ x_bounded' = HasTimeout(op)
    /\ x_secs' = ResultTimeout(op, seconds)
    /\ x_exec' = "queued"
    /\ x_elapsed' = 0
    /\ x_result' = "none"
    /\ UNCHANGED nonX

\* the network loop runs what was submitted to it; a loop of the calling
\* thread does not run while that thread blocks in .result()
X_LoopRuns ==
    /\ x_op # "none"
    /\ x_exec = "queued"
    /\ x_loop = "network"
    /\ x_exec' = "running"
    /\ UNCHANGED <<x_op, x_loop, x_bounded, x_secs, x_elapsed, x_result>>
    /\ UNCHANGED nonX

\* the backend acknowledges the request: the coroutine completes
X_Acked ==
    /\ x_exec = "running"
    /\ x_exec' = "done"
    /\ UNCHANGED <<x_op, x_loop, x_bounded, x_secs, x_elapsed, x_result>>
    /\ UNCHANGED nonX

\* a second passes while the caller waits
X_Tick ==
    /\ x_op # "none"
    /\ x_result = "none"
    /\ x_elapsed < (IF x_bounded THEN x_secs ELSE MaxSeconds + 1)
    /\ x_elapsed' = x_elapsed + 1
    /\ UNCHANGED <<x_op, x_loop, x_bounded, x_secs, x_exec, x_result>>
    /\ UNCHANGED nonX

\* .result() returns the coroutine's result
X_Returns ==
    /\ x_op # "none"
    /\ x_result = "none"
    /\ x_exec = "done"
    /\ x_result' = "returned"
    /\ UNCHANGED <<x_op, x_loop, x_bounded, x_secs, x_exec, x_elapsed>>
    /\ UNCHANGED nonX

\* .result(timeout) raises TimeoutError: the timeout has passed with no result
X_TimesOut ==
    /\ x_op # "none"
    /\ x_result = "none"
    /\ x_bounded
    /\ x_elapsed >= x_secs
    /\ x_exec # "done"
    /\ x_result' = "TimeoutError"
    /\ UNCHANGED <<x_op, x_loop, x_bounded, x_secs, x_exec, x_elapsed>>
    /\ UNCHANGED nonX

NextX ==
    \/ \E op \in CrossThreadOps, cur \in CallerLoops, seconds \in 1..MaxSeconds :
           X_Submit(op, cur, seconds)
    \/ X_LoopRuns
    \/ X_Acked
    \/ X_Tick
    \/ X_Returns
    \/ X_TimesOut

\* the initial state of the operations above
InitLater == InitConf /\ InitGossip /\ InitChan /\ InitProc /\ InitEx /\ InitX

NextConfirm ==
    \/ \E peered \in BOOLEAN : Confirm_Call(peered)
    \/ Confirm_Sleep
    \/ \E r \in CheckOutcomes : Confirm_Poll1(r)
    \/ \E r \in CheckOutcomes : Confirm_Poll2(r)
    \/ Confirm_Decide
    \/ Confirm_Generate
    \/ \E ok \in BOOLEAN : Confirm_Sync1(ok)
    \/ \E ok \in BOOLEAN : Confirm_Sync2(ok)

Init == InitFC /\ InitPoll /\ InitNode /\ InitFunds /\ InitLater

SpecForceClose == Init /\ [][NextForceClose]_vars

\* The event loop runs a ready watcher task when it is idle, and a running
\* watcher goes on until it suspends.
LoopFairness == WF_vars(Loop_RunWatcher) /\ \A g \in Gens : WF_vars(W_Iter(g))

FairForceClose == Init /\ [][NextForceClose]_vars /\ LoopFairness

SpecPolling == Init /\ [][NextPolling]_vars

SpecNode == Init /\ [][NextNode]_vars

\* The thread that runs addfunds keeps running; the backend's wallet is under
\* no obligation to ever show the payment.
SpecFunds == Init /\ [][NextFunds]_vars /\ WF_vars(AddfundsStep)

SpecConfirm == Init /\ [][NextConfirm]_vars

SpecGossip == Init /\ [][NextGossip]_vars

SpecChan == Init /\ [][NextChan]_vars

SpecProc == Init /\ [][NextProc]_vars

SpecX == Init /\ [][NextX]_vars

\* The server thread and its loop keep running while they have a step to take,
\* and a join() whose thread has ended returns.
SpecEx == Init /\ [][NextEx]_vars /\ WF_vars(ThreadStep) /\ WF_vars(Ex_joined)

(***************************************************************************)
(* Helpers of the force-close properties.                                  *)
(***************************************************************************)
RECURSIVE FirstOccurrences(_)
\* s without every repeated occurrence of an element
FirstOccurrences(s) ==
    IF s = <<>> THEN <<>>
    ELSE LET r == FirstOccurrences(SubSeq(s, 1, Len(s) - 1))
             x == s[Len(s)]
         IN IF \E i \in 1..Len(r) : r[i] = x THEN r ELSE Append(r, x)

IsPrefix(s, t) == Len(s) <= Len(t) /\ \A i \in 1..Len(s) : s[i] = t[i]

NoDuplicates(s) == \A i, j \in 1..Len(s) : i # j => s[i] # s[j]

\* C1: successive get_published_e_tx() calls return the broadcast events in the
\* order they were broadcast, and a transaction queued by the chain watcher more
\* than once is returned at most once, over any sequence of force_close calls.
C1_OrderedAndDeduplicated ==
    /\ NoDuplicates(published)
    /\ IsPrefix(published, FirstOccurrences(broadcast_log))

\* C2: a force_close generator yields the closing transaction id, obtained only
\* after the close request was acknowledged, then the terminal signal, obtained
\* only after all_done of its item is set; it yields nothing else, never the
\* second item before the first, and ends only after both.
C2_TwoItemsInOrder ==
    \A g \in Gens :
        /\ IsPrefix(gen_out[g], <<"closing_txid", "all_done">>)
        /\ Len(gen_out[g]) >= 1 => close_fut[g] = "acked"
        /\ Len(gen_out[g]) = 2 => all_done[g]
        /\ gen_pc[g] = "ended" => Len(gen_out[g]) = 2
        /\ gen_pc[g] \in {"unborn", "created", "closing"} => gen_out[g] = <<>>

C2_Witness ==
    \E g \in Gens : gen_pc[g] = "ended" /\ gen_out[g] = <<"closing_txid", "all_done">>

(***************************************************************************)
(* Properties of the polling helpers.                                      *)
(***************************************************************************)
\* C3 as stated: an evaluation of the predicate that raises is swallowed like
\* one that returns false, so no helper call ends with the predicate's error.
C3_ErrorSwallowed == h_result # "pred_error"

\* C3 as amended: an error raised by the predicate is not swallowed. It ends the
\* helper call at once with that error: the raising evaluation is the last one,
\* and generate_until mines no block after it.
C3_ErrorPropagates ==
    /\ \A i \in 1..Len(h_evals) :
           h_evals[i] = "raise" => (i = Len(h_evals) /\ h_result = "pred_error")
    /\ h_result = "pred_error" =>
           /\ h_evals # <<>>
           /\ h_evals[Len(h_evals)] = "raise"
           /\ h_pc = "done"
           /\ h_fn = "generate_until" => mined = Len(h_evals) - 1

C3_Witness ==
    /\ h_fn = "generate_until"
    /\ h_result = "pred_error"
    /\ Len(h_evals) >= 2

\* the evaluations of success() so far that returned true
TrueEvals == {i \in 1..Len(h_evals) : h_evals[i] = "true"}

\* generate_until mines only after an evaluation that returned false, never
\* after one that returned true, and at most `blocks` blocks
MinesOnlyAfterFalse ==
    h_fn = "generate_until" =>
        /\ mined <= blocks
        /\ mined <= Len(h_evals)
        /\ \A i \in 1..mined : h_evals[i] = "false"
        /\ \A i \in TrueEvals : i = Len(h_evals) /\ mined = i - 1

\* C18 as stated: generate_until mines a block only directly after an
\* evaluation of success that returned false, none after one that returned
\* true, at most `blocks` in total; it returns normally if and only if some
\* evaluation returned true, and otherwise raises after exactly blocks + 1
\* evaluations.
C18_GeneratesUntilSuccess ==
    /\ MinesOnlyAfterFalse
    /\ (h_fn = "generate_until" /\ h_pc = "done") =>
           /\ h_result = "returned" <=> TrueEvals # {}
           /\ h_result # "returned" => Len(h_evals) = blocks + 1

\* C18 as amended: the same, except that a call in which no evaluation
\* returned true raises its ValueError after exactly blocks + 1 evaluations,
\* all false, only if the predicate never raised; an error of the predicate
\* ends the call at that evaluation, which may be an earlier one.
C18_GeneratesUntilSuccessOrError ==
    /\ MinesOnlyAfterFalse
    /\ (h_fn = "generate_until" /\ h_pc = "done") =>
           /\ h_result = "returned" <=> TrueEvals # {}
           /\ h_result \in {"returned", "ValueError", "pred_error"}
           /\ h_result = "ValueError" =>
                  /\ Len(h_evals) = blocks + 1
                  /\ mined = blocks
                  /\ \A i \in 1..Len(h_evals) : h_evals[i] = "false"
           /\ h_result = "pred_error" =>
                  /\ Len(h_evals) <= blocks + 1
                  /\ mined = Len(h_evals) - 1
                  /\ h_evals[Len(h_evals)] = "raise"

C18_Witness ==
    /\ h_fn = "generate_until"
    /\ h_result = "ValueError"
    /\ blocks = MaxBlocks
    /\ mined = blocks

\* C19: wait_for returns normally if and only if an evaluation of success
\* returned true: it never returns normally when the last evaluation was
\* false, never raises its timeout error after an evaluation returned true,
\* and raises only once the timeout has elapsed.
C19_ReturnsIffSuccess ==
    (h_fn = "wait_for" /\ h_pc = "done") =>
        /\ h_result = "returned" => h_evals[Len(h_evals)] = "true"
        /\ h_result = "ValueError" => TrueEvals = {}
        /\ h_result = "ValueError" => now > start_time + timeout

(***************************************************************************)
(* Properties of the handle operations.                                    *)
(***************************************************************************)
Booleans == {"True", "False"}

\* the daemon behind the handle is up and serves its wallet
DaemonReachable ==
    IF impl = "lnd" THEN lnd_proc = "running" /\ lnd_unlocked
    ELSE el_actual = "running" /\ el_wallets # 0

\* the wallet the running daemon serves (0: none)
RunningWallet ==
    IF ~DaemonReachable THEN 0
    ELSE IF impl = "lnd" THEN lnd_wallet ELSE el_wallets

HasChannelWith(p) ==
    IF impl = "lnd" THEN lnd_channels[p] # "none"
    ELSE \E i \in 1..Len(el_channels) : el_channels[i].node_id = p

HasOpenChannelWith(p) ==
    IF impl = "lnd" THEN lnd_channels[p] = "active"
    ELSE \E i \in 1..Len(el_channels) :
             el_channels[i].node_id = p /\ el_channels[i].state = "OPEN"

\* the steps that are a call of one operation of the handle
PingCall == LndNode_ping \/ ElectrumNode_ping
CheckChannelCall ==
    \E p \in Peers : LndNode_check_channel(p) \/ ElectrumNode_check_channel(p)
CheckRouteCall ==
    \/ \E reply \in ErrorTexts \cup {Routes} : LndNode_check_route(reply)
    \/ \E found \in PathFinds : ElectrumNode_check_route(found)
RestartCall ==
    \E init \in {"fresh", "rejected"} : LndNode_restart(init) \/ ElectrumNode_restart(init)

\* C4: ping() never raises, and it returns true exactly when the daemon is
\* reachable at the time of the call; false while it is stopped or not started.
C4_PingReflectsLiveness ==
    [][PingCall =>
          /\ result'.val \in Booleans
          /\ result'.val = "True" <=> DaemonReachable]_vars

\* C5: on a serving node, check_channel(remote) returns false (it does not
\* raise) when there is no channel with remote, also when there are channels
\* with other peers only; it returns true only for an OPEN / active channel
\* with remote.
C5_NoChannelMeansFalse ==
    [][(CheckChannelCall /\ DaemonReachable) =>
          /\ ~HasChannelWith(result'.arg) => result'.val = "False"
          /\ result'.val = "True" => HasOpenChannelWith(result'.arg)]_vars

LndRouteOnlyNoPathIsFalse ==
    (CheckRouteCall /\ impl = "lnd") =>
        /\ result'.val = "True" <=> (DaemonReachable /\ result'.aux = Routes)
        /\ result'.val = "False" <=> (DaemonReachable /\ Find(result'.aux, NoPath) > 0)
        /\ result'.val \notin Booleans => result'.val \in {"_Rendezvous", "AttributeError"}

\* ElectrumNode.check_route hands back what the path finder gave: never a boolean
ElRouteIsNoBoolean ==
    (CheckRouteCall /\ impl = "electrum") =>
        /\ result'.val \notin Booleans
        /\ ElWalletAccess = "ok" => <<result'.val>> = result'.aux

\* LndNode.check_channel answers with a boolean only when lnd answered
LndChannelBooleanOnlyWhenServed ==
    (CheckChannelCall /\ impl = "lnd") =>
        /\ result'.val \in Booleans <=> DaemonReachable
        /\ result'.val = "True" <=> (DaemonReachable /\ lnd_channels[result'.arg] = "active")

\* ElectrumNode.check_channel is False only for an empty channel list or for a
\* first channel that is remote's and not OPEN
ElChannelFalseOnlyWhenNamed ==
    (CheckChannelCall /\ impl = "electrum") =>
        /\ result'.val \in Booleans => ElWalletAccess = "ok"
        /\ result'.val = "False" <=>
               /\ ElWalletAccess = "ok"
               /\ \/ el_channels = <<>>
                  \/ el_channels[1] = [node_id |-> result'.arg, state |-> "OTHER"]

C7_IdentityStable ==
    (result.op = "id" /\ first_id # 0) =>
        (result.val = "id" /\ result.id = first_id)

\* C8: after restart() of a serving node the daemon serves the wallet it served
\* before the restart: no new wallet was created, and the identity is the same.
C8_RestartKeepsWallet ==
    [][(RestartCall /\ DaemonReachable) =>
          /\ result'.val = "ok"
          /\ RunningWallet' = RunningWallet]_vars

\* the query methods of the handle
QueryCall == PingCall \/ CheckChannelCall \/ CheckRouteCall

\* the daemon's wallet and channels, and what the handle holds of the daemon
BackendState == <<lnd_proc, lnd_has_stub, lnd_wallet, lnd_unlocked, lnd_channels,
                  el_actual, el_wallets, el_wallet_file, el_channels, wallets_made>>

C9_PollsUntilFunded ==
    /\ af_pc = "returned" => last_poll.funded
    /\ af_pc = "sleeping" => ~last_poll.funded
    /\ (af_pc = "AssertionError" /\ last_poll.read) => af_i > 0

\* C10 as stated: addfunds always terminates, for every backend.
C10_AddfundsTerminates == <>(af_pc \in AfFinal)

\* C10 as amended: only LndNode.addfunds is capped. Its settle loop sleeps at
\* most 30 times and then ends in the final assertion, whatever the balance
\* does; ElectrumNode.addfunds has no cap, and it returns only once the address
\* shows a matured or unmatured balance.
C10_OnlyLndIsCapped ==
    /\ [](af_i <= LndSettleCap)
    /\ (impl = "lnd" /\ af_pc = "loop") ~> (af_pc \in {"returned", "AssertionError"})
    /\ []((impl = "electrum" /\ af_pc = "returned") => ElFundsSeen)

C10_Witness ==
    /\ impl = "lnd"
    /\ af_pc = "returned"
    /\ af_i = LndSettleCap

(***************************************************************************)
(* Properties of confirm_channel.                                          *)
(***************************************************************************)
\* C20: confirm_channel returns true only if both check_channel calls of one
\* poll returned true; it mines at most 10 blocks, none after a successful
\* poll, and after each block it mines both nodes get block_sync with that
\* block's hash before the next poll.
C20_ConfirmChannel ==
    /\ cc_result = "True" => cc_last = <<"True", "True">>
    /\ cc_mined <= ConfirmRounds
    /\ cc_mined <= cc_polls
    /\ cc_result \in {"True", "False"} => cc_mined = cc_polls - 1
    /\ cc_pc \in {"sleep", "poll1", "poll2", "decide"} => cc_synced = <<cc_mined, cc_mined>>
    /\ cc_result \in {"True", "False"} => cc_synced = <<cc_mined, cc_mined>>

C20_Witness ==
    /\ cc_result = "True"
    /\ cc_mined = ConfirmRounds
    /\ cc_synced = <<ConfirmRounds, ConfirmRounds>>

(***************************************************************************)
(* Properties of getchannels and getnodes.                                 *)
(***************************************************************************)
\* the pairs in the result of getchannels, a list or a set
ChannelPairs == Elements(g_result.list) \cup g_result.set

\* C12: the result of getchannels() is symmetric, (x, y) is in it if and only
\* if (y, x) is, and every edge of the graph the node knows contributes both
\* of its directions.
C12_GetchannelsSymmetric ==
    g_result.op = "getchannels" =>
        /\ g_result.val = "returned"
        /\ \A pair \in ChannelPairs : <<pair[2], pair[1]>> \in ChannelPairs
        /\ \A i \in 1..Len(g_edges) :
               /\ <<Hex(g_edges[i][1]), Hex(g_edges[i][2])>> \in ChannelPairs
               /\ <<Hex(g_edges[i][2]), Hex(g_edges[i][1])>> \in ChannelPairs

C12_Witness ==
    /\ g_result.op = "getchannels"
    /\ Len(g_edges) = MaxEdges
    /\ g_edges[1] # g_edges[2]
    /\ Cardinality(ChannelPairs) = 4

\* C13: getnodes() returns normally, and its result is exactly the set of the
\* node ids of the graph without the node's own id.
C13_GetnodesExcludesSelf ==
    g_result.op = "getnodes" =>
        /\ g_result.val = "returned"
        /\ g_result.set = {Hex(n) : n \in g_nodes \ {SelfId}}

(***************************************************************************)
(* Properties of openchannel and send.                                     *)
(***************************************************************************)
\* C11: a successful openchannel returns a pair (fundingTxId, csvDelay): the
\* funding transaction of the channel just opened, and the to_self_delay of
\* the remote side's configuration of that channel.
C11_OpenchannelReturnsPair ==
    (ch_result.op = "openchannel" /\ ch_result.val = "returned") =>
        /\ ch_result.kind = "pair"
        /\ ch_result.txid = ch_opened.txid
        /\ ch_result.csv = ch_opened.remote_csv

\* C16: send returns a value only for a payment that settled, and the hex
\* preimage it returns hashes to the invoice's payment hash; when the backend
\* rejects the payment, send raises an error that carries the backend's error
\* string, and returns no preimage.
C16_SendSettlesOrRaises ==
    ch_result.op = "send" =>
        /\ ch_result.val = "returned" =>
               /\ ch_pay.outcome = "settled"
               /\ Sha256(Unhexlify(ch_result.pre)) = ch_pay.hash
        /\ ch_pay.outcome = "rejected" =>
               /\ ch_result.val # "returned"
               /\ ch_result.pre = <<>>
               /\ ch_result.text = ch_pay.error

NotAdvanced(g) == gen_pc[g] \in {"unborn", "created"}

\* C23: force_close is a resumable two-step handshake. Creating the sequence
\* performs no action; the close request is submitted only when the first item
\* is requested; the wait for the close resolution starts only when the second
\* item is requested; between the two requests the caller holds control, and a
\* get_published_e_tx() it makes there returns the oldest forwarded event while
\* no generator is inside a step and without advancing any generator.
C23_ResumableHandshake ==
    /\ [](\A g \in Gens :
            NotAdvanced(g) =>
                /\ close_fut[g] = "none"
                /\ watch_pc[g] = "none"
                /\ tx_progress # g
                /\ gen_out[g] = <<>>)
    /\ [][\A g \in Gens :
            /\ (gen_pc[g] = "unborn" /\ gen_pc'[g] # "unborn") =>
                   /\ gen_pc'[g] = "created"
                   /\ UNCHANGED <<tx_progress, tx_queue, all_done, watch_pc, seen, ready,
                                  loop_cur, broadcasted_encumbered_txs, close_fut, gen_out,
                                  published, broadcast_log>>
            /\ (close_fut[g] = "none" /\ close_fut'[g] # "none") =>
                   (gen_pc[g] = "created" /\ gen_pc'[g] = "closing")
            /\ (gen_pc[g] # "waiting_done" /\ gen_pc'[g] = "waiting_done") =>
                   (gen_pc[g] = "yielded1" /\ gen_out[g] = <<"closing_txid">>)]_vars
    /\ [][published' # published =>
            /\ \A g \in Gens : gen_pc[g] \notin {"closing", "waiting_done"}
            /\ broadcasted_encumbered_txs # <<>>
            /\ published' = Append(published, Head(broadcasted_encumbered_txs))
            /\ UNCHANGED <<gen_pc, gen_out, close_fut, all_done>>]_vars

\* the first generator is paused after its first item, the second item was not
\* requested and the close is not resolved, and get_published_e_tx has returned
\* both transactions meanwhile
C23_Witness ==
    /\ gen_pc[1] = "yielded1"
    /\ gen_out[1] = <<"closing_txid">>
    /\ ~all_done[1]
    /\ \A g \in Gens : g # 1 => gen_pc[g] = "unborn"
    /\ Len(published) = 2

\* the transactions of a sequence
Range(s) == {s[i] : i \in 1..Len(s)}

\* e_tx was put on broadcasted_encumbered_txs: get_published_e_tx has returned
\* it or will return it
Forwarded(e_tx) == e_tx \in Range(published) \cup Range(broadcasted_encumbered_txs)

\* C22: the listener item and the watcher task of a force_close are registered
\* before its close request is submitted, and under fair scheduling of the
\* event loop every distinct transaction the chain watcher queues is eventually
\* available to get_published_e_tx: none is lost.
C22_NoBroadcastLost ==
    /\ [](\A g \in Gens :
            close_fut[g] # "none" => (watch_pc[g] # "none" /\ tx_progress >= g))
    /\ \A e_tx \in Txs : (e_tx \in Range(broadcast_log)) ~> Forwarded(e_tx)

\* the close was acknowledged, the chain watcher queued both transactions and
\* both were forwarded
C22_Witness ==
    /\ close_fut[1] = "acked"
    /\ Range(broadcast_log) = Txs
    /\ \A e_tx \in Txs : Forwarded(e_tx)

(***************************************************************************)
(* Properties of LndNode.restart and of id() on a node that is not up.     *)
(***************************************************************************)
\* C24: LndNode.restart() returns normally once the daemon was stopped and
\* started again, and the handle's RPC-using methods then reach the restarted
\* daemon.
C24_LndRestartReturns ==
    [][LndNode_restart("fresh") =>
          /\ result'.val = "ok"
          /\ LndStubCall' = "ok"]_vars

IdCall == LndNode_id \/ ElectrumNode_id

\* id() has to resolve the identity, and the process or wallet cannot give it
IdUnavailable ==
    IF impl = "lnd" THEN myid = 0 /\ LndStubCall # "ok" ELSE ElWalletAccess # "ok"

\* C25: an id() call made while the process or wallet is not yet available
\* raises and caches nothing, so the identity cache stays empty; an id() call
\* made with the cache empty once the process is running resolves and returns
\* the node's real identity.
C25_FailedIdCachesNothing ==
    [][IdCall =>
          /\ IdUnavailable =>
                 /\ result'.val \in {"AttributeError", "AssertionError", "RpcError"}
                 /\ result'.id = 0
                 /\ myid' = 0
                 /\ first_id' = first_id
          /\ (myid = 0 /\ DaemonReachable) =>
                 /\ result'.val = "id"
                 /\ result'.id = RunningWallet
                 /\ result'.id # 0
                 /\ impl = "lnd" => myid' = RunningWallet]_vars

\* id() has failed on an lnd that was stopped, its wallet made but the cache
\* still empty
C25_Witness ==
    /\ impl = "lnd"
    /\ result.op = "id"
    /\ result.val = "RpcError"
    /\ lnd_wallet # 0
    /\ myid = 0

(***************************************************************************)
(* Properties of ElectrumX.kill.                                            *)
(***************************************************************************)
\* C26: once start() and kill() were both called on an ElectrumX, the server
\* thread eventually ends, in every interleaving of kill() with the thread's
\* startup (kill() before the loop runs included), so a wait() that is joining
\* the thread returns.
C26_KillEndsThread ==
    /\ (ex_kills > 0 /\ ex_thread # "none") ~> (ex_thread = "ended")
    /\ (ex_kills > 0 /\ ex_wait = "joining") ~> (ex_wait = "returned")

\* kill() has returned, the loop ran its callback and set the event while
\* serve(evt) was still pending, and wait() has returned
C26_Witness ==
    /\ ex_kills = 1
    /\ ex_kill = "returned"
    /\ ex_evt
    /\ ex_serve = "pending"
    /\ ex_wait = "returned"

(***************************************************************************)
(* Properties of the calls across threads.                                 *)
(***************************************************************************)
\* C21: every ElectrumNode method that submits a coroutine across threads
\* submits it to the running network loop, so the request is executed; its wait
\* is bounded; the call returns only with the backend's answer, and it ends in
\* a timeout error only when the request was executed and the backend did not
\* answer within the bound.
C21_SubmitsToNetworkLoop ==
    /\ x_op # "none" => x_loop = "network"
    /\ x_op # "none" => x_bounded
    /\ x_result = "none" => x_elapsed <= x_secs
    /\ x_result = "returned" => x_exec = "done"
    /\ x_result = "TimeoutError" => (x_exec = "running" /\ x_elapsed >= x_secs)

====
